---- MODULE Spec2Model ----
(***************************************************************************)
(* State-machine model of the timetable notification bot                   *)
(* (SergLipatov/tolgas_raspisanie_bot): the SQLite-backed Database class   *)
(* (database.py), the refresh routines and the notification check of       *)
(* bot.py, the startup sequence of main.py and the update endpoint of      *)
(* api.py.                                                                 *)
(*                                                                         *)
(* Encodings.  A text value is a sequence of Unicode code points.  A date  *)
(* text 'DD.MM.YYYY' is the triple <<dd, mm, yyyy>> and a time text        *)
(* 'HH:MM' the pair <<hh, mm>> (zero padded, so that the order of the      *)
(* texts is the lexicographic order of the tuples).  A ledger timestamp    *)
(* 'YYYY-MM-DD HH:MM:SS' is a 6-tuple.  The wall clock `now` counts        *)
(* seconds from 01.01.EpochYear 00:00:00.                                  *)
(***************************************************************************)
EXTENDS Integers, Sequences, FiniteSets, TLC

VARIABLES
    db,        \* the SQLite database file: one field per table
    now,       \* wall clock, seconds since 01.01.EpochYear 00:00:00
    up,        \* TRUE while the bot process runs
    nextRun,   \* job queue: next firing time of each scheduled job, and the
               \* callbacks in execution
    sent,      \* Delivery Sink: the send_message calls made so far
    last       \* the operation executed by the last step and its outcome

vars == <<db, now, up, nextRun, sent, last>>

-----------------------------------------------------------------------------
(* Values *)

\* Python None, and SQL NULL in an integer column.
NULL == -1

\* SQL NULL in a timestamp column.
NullText == <<>>

\* Seconds per minute, hour and day (datetime.timedelta arithmetic).
Minute == 60
Hour == 60 * Minute
DayLen == 24 * Hour

\* First year of the model calendar.
EpochYear == 2025

Max2(a, b) == IF a >= b THEN a ELSE b

RECURSIVE SeqToSet(_)
SeqToSet(s) == IF s = <<>> THEN {} ELSE {Head(s)} \cup SeqToSet(Tail(s))

\* Lexicographic order of two tuples of integers of the same length: the
\* order SQLite's BINARY collation gives to the zero-padded texts.
RECURSIVE TupleLess(_, _)
TupleLess(a, b) ==
    IF a = <<>> \/ b = <<>> THEN FALSE
    ELSE IF Head(a) # Head(b) THEN Head(a) < Head(b)
    ELSE TupleLess(Tail(a), Tail(b))

TupleLeq(a, b) == a = b \/ TupleLess(a, b)

-----------------------------------------------------------------------------
(* Calendar: datetime.strftime / datetime.strptime *)

IsLeap(y) == (y % 4 = 0 /\ y % 100 # 0) \/ y % 400 = 0

DaysInMonth(y, m) ==
    IF m = 2 THEN (IF IsLeap(y) THEN 29 ELSE 28)
    ELSE IF m \in {4, 6, 9, 11} THEN 30 ELSE 31

DaysInYear(y) == IF IsLeap(y) THEN 366 ELSE 365

\* The calendar date <<dd, mm, yyyy>> that lies d days after 01.mm.yyyy.
RECURSIVE DateFrom(_, _, _)
DateFrom(y, m, d) ==
    IF d < DaysInMonth(y, m) THEN <<d + 1, m, y>>
    ELSE IF m = 12 THEN DateFrom(y + 1, 1, d - DaysInMonth(y, m))
    ELSE DateFrom(y, m + 1, d - DaysInMonth(y, m))

\* t.strftime('%d.%m.%Y')
StrfDate(t) == DateFrom(EpochYear, 1, t \div DayLen)

\* Days from 01.01.EpochYear to the first day of month m of year y.
RECURSIVE DaysBefore(_, _)
DaysBefore(y, m) ==
    IF y = EpochYear /\ m = 1 THEN 0
    ELSE IF m = 1 THEN DaysBefore(y - 1, 12) + DaysInMonth(y - 1, 12)
    ELSE DaysBefore(y, m - 1) + DaysInMonth(y, m - 1)

\* strptime accepts the text only if it names a real date and time.
ValidDate(d) ==
    /\ d[3] >= EpochYear
    /\ d[2] \in 1..12
    /\ d[1] \in 1..DaysInMonth(d[3], d[2])

ValidTime(t) == t[1] \in 0..23 /\ t[2] \in 0..59

\* datetime.strptime(f"{date} {time}", '%d.%m.%Y %H:%M'), in seconds; NULL
\* stands for the ValueError raised on a malformed text.
StrpDateTime(d, t) ==
    IF ValidDate(d) /\ ValidTime(t)
    THEN (DaysBefore(d[3], d[2]) + d[1] - 1) * DayLen + t[1] * Hour + t[2] * Minute
    ELSE NULL

\* t.strftime('%Y-%m-%d %H:%M:%S')
StrfTimestamp(t) ==
    LET d == StrfDate(t)
        s == t % DayLen
    IN  <<d[3], d[2], d[1], s \div Hour, (s % Hour) \div Minute, s % Minute>>

\* datetime.strptime(ts, '%Y-%m-%d %H:%M:%S')
StrpTimestamp(ts) ==
    (DaysBefore(ts[1], ts[2]) + ts[3] - 1) * DayLen
        + ts[4] * Hour + ts[5] * Minute + ts[6]

-----------------------------------------------------------------------------
(* Text: SQLite's lower() and LIKE *)

\* Code points of the LIKE wildcards '%' and '_'.
Percent == 37
Underscore == 95

\* SQLite's built-in case folding knows the 26 ASCII letters only.
AsciiLower(c) == IF c \in 65..90 THEN c + 32 ELSE c

\* lower(X) of SQLite without the ICU extension.
SqlLower(s) == [i \in 1..Len(s) |-> AsciiLower(s[i])]

\* X LIKE pattern: '%' matches any run of characters, '_' any single one,
\* every other character matches itself, ASCII letters ignoring case.
RECURSIVE Like(_, _)
Like(text, pat) ==
    IF pat = <<>> THEN text = <<>>
    ELSE IF Head(pat) = Percent
         THEN Like(text, Tail(pat)) \/ (text # <<>> /\ Like(Tail(text), pat))
    ELSE /\ text # <<>>
         /\ \/ Head(pat) = Underscore
            \/ AsciiLower(Head(pat)) = AsciiLower(Head(text))
         /\ Like(Tail(text), Tail(pat))

\* lower(field) LIKE '%' || lower(pattern) || '%'
LowerLikeContains(field, pattern) ==
    Like(SqlLower(field), <<Percent>> \o SqlLower(pattern) \o <<Percent>>)

\* INTEGER column affinity: a text of decimal digits is stored as the number
\* it spells.
RECURSIVE NumericAffinity(_)
NumericAffinity(digits) ==
    IF digits = <<>> THEN 0
    ELSE NumericAffinity(SubSeq(digits, 1, Len(digits) - 1)) * 10
            + digits[Len(digits)]

-----------------------------------------------------------------------------
(* SQLite's julianday() on a time text *)

\* julianday('HH:MM') is the double nearest to 2451544.5 + minutes/1440.
\* Doubles of that magnitude are the multiples of 2^-31; the operator gives
\* the distance from 2451544.5 in units of 2^-31 day, that is
\* round(minutes * 2^31 / 1440) = (minutes * 2^27 + 45) \div 90, computed
\* without leaving 32 bits.
JulianDay(t) ==
    LET m == t[1] * 60 + t[2]
    IN  m * (2^27 \div 90) + (m * (2^27 % 90) + 45) \div 90

\* (JULIANDAY(a) - JULIANDAY(b)) * 24 * 60 >= k: the difference and the
\* two products are exact in double arithmetic, so the test is
\* (JulianDay(a) - JulianDay(b)) * 1440 >= k * 2^31.
JulianMinutesAtLeast(a, b, k) ==
    JulianDay(a) - JulianDay(b)
        >= k * (2^26 \div 45) + (k * (2^26 % 45) + 44) \div 45

-----------------------------------------------------------------------------
(* Database (database.py): tables *)

\* The tables right after init_db on a fresh file.  groups, lessons, users
\* and update_info are kept in rowid order; the id of a group or user row is
\* its position.  A users row is its telegram_id.
EmptyDb ==
    [ groups                 |-> <<>>,
      lessons                |-> <<>>,
      users                  |-> <<>>,
      subscriptions          |-> {},
      notification_settings  |-> {},
      daily_notifications    |-> {},
      gap_notifications      |-> {},
      subject_notifications  |-> {},
      teacher_notifications  |-> {},
      update_period_settings |-> {},
      update_info            |-> <<>> ]

\* Column defaults of the schema.
DefaultGeneralMinutes == 30
DefaultDailyMinutes == 60
DefaultGapMinutes == 30
DefaultPatternMinutes == 30
DefaultPeriodDays == 30

\* The rowid SQLite gives to a row inserted into a table whose rows have
\* the ids in `ids`: one more than the largest.
NextRowId(ids) ==
    IF ids = {} THEN 1 ELSE (CHOOSE i \in ids : \A j \in ids : j <= i) + 1

\* a = b in SQL: never true when an operand is NULL.
SqlEq(a, b) == a # NULL /\ b # NULL /\ a = b

\* users.id of the row with the given telegram_id, or NULL.
UserId(d, telegram_id) ==
    IF \E i \in 1..Len(d.users) : d.users[i] = telegram_id
    THEN CHOOSE i \in 1..Len(d.users) : d.users[i] = telegram_id
    ELSE NULL

\* SELECT s.id FROM subscriptions s JOIN users u ON s.user_id = u.id
\* WHERE u.telegram_id = ? AND s.group_id = ?
SubscriptionIds(d, telegram_id, group_id) ==
    { s.id : s \in { x \in d.subscriptions :
                        /\ x.group_id = group_id
                        /\ x.user_id \in 1..Len(d.users)
                        /\ d.users[x.user_id] = telegram_id } }

-----------------------------------------------------------------------------
(* Database: groups, lessons, users *)

add_group(d, name, group_id) ==
    IF \E i \in 1..Len(d.groups) : d.groups[i].group_id = group_id
    THEN d
    ELSE [d EXCEPT !.groups = Append(@, [name |-> name, group_id |-> group_id])]

\* The stored row of a fetched lesson record.
LessonRow(group_id, lesson) ==
    [ group_id    |-> group_id,
      date        |-> lesson.date,
      number      |-> NumericAffinity(lesson.number),
      time_start  |-> lesson.time_start,
      time_end    |-> lesson.time_end,
      subject     |-> lesson.subject,
      lesson_type |-> lesson.type,
      audience    |-> lesson.audience,
      teacher     |-> lesson.teacher ]

\* save_timetable without its DELETE statement: the new rows are added to
\* the old ones.
save_timetable_without_delete(d, group_id, lessons, fails) ==
    IF fails
    THEN [db |-> d, ret |-> FALSE]
    ELSE [db |-> [d EXCEPT !.lessons =
                    @ \o [i \in 1..Len(lessons) |-> LessonRow(group_id, lessons[i])]],
          ret |-> TRUE]

\* save_timetable(group_id, lessons).  `fails` says that a statement of the
\* transaction raises: the except branch rolls the transaction back.
save_timetable(d, group_id, lessons, fails) ==
    IF fails
    THEN [db |-> d, ret |-> FALSE]
    ELSE [db |-> [d EXCEPT !.lessons =
                    SelectSeq(@, LAMBDA l : l.group_id # group_id)
                        \o [i \in 1..Len(lessons) |-> LessonRow(group_id, lessons[i])]],
          ret |-> TRUE]

add_user(d, telegram_id) ==
    IF UserId(d, telegram_id) # NULL
    THEN [db |-> d, ret |-> UserId(d, telegram_id)]
    ELSE [db |-> [d EXCEPT !.users = Append(@, telegram_id)],
          ret |-> Len(d.users) + 1]

\* The stored lessons of a group, in rowid order.
LessonsOf(d, group_id) == SelectSeq(d.lessons, LAMBDA l : l.group_id = group_id)

\* get_timetable_for_group(group_id, date), as the set of rows returned.
get_timetable_for_group(d, group_id, date) ==
    { d.lessons[i] : i \in { j \in 1..Len(d.lessons) :
                                /\ d.lessons[j].group_id = group_id
                                /\ d.lessons[j].date = date } }

-----------------------------------------------------------------------------
(* Database: subscriptions and notification preferences *)

\* subscribe_to_group(user_id, group_id); user_id is a users.id.
\* subscribe_to_group written with INSERT OR REPLACE: a second subscription of
\* the same user to the same group replaces the row and its preference rows
\* by fresh ones.
subscribe_replacing(d, user_id, group_id) ==
    LET old == { s \in d.subscriptions :
                    s.user_id = user_id /\ s.group_id = group_id }
        sid == IF old # {} THEN (CHOOSE s \in old : TRUE).id
               ELSE NextRowId({s.id : s \in d.subscriptions})
        Others(table) == { r \in table : r.subscription_id # sid }
    IN  [db |-> [d EXCEPT
              !.subscriptions = (@ \ old) \cup
                  {[id |-> sid, user_id |-> user_id, group_id |-> group_id,
                    notifications_enabled |-> 1]},
              !.notification_settings = Others(@) \cup
                  {[subscription_id |-> sid,
                    notify_before_minutes |-> DefaultGeneralMinutes]},
              !.daily_notifications = Others(@) \cup
                  {[subscription_id |-> sid, enabled |-> 1,
                    notify_before_minutes |-> DefaultDailyMinutes]},
              !.gap_notifications = Others(@) \cup
                  {[subscription_id |-> sid, enabled |-> 1,
                    notify_before_minutes |-> DefaultGapMinutes]},
              !.update_period_settings =
                  IF \E r \in @ : r.group_id = group_id THEN @
                  ELSE @ \cup {[group_id |-> group_id, days |-> DefaultPeriodDays]}],
         ret |-> TRUE]

subscribe_to_group(d, user_id, group_id) ==
    IF \E s \in d.subscriptions : s.user_id = user_id /\ s.group_id = group_id
    THEN [db |-> d, ret |-> FALSE]
    ELSE
      LET sid == NextRowId({s.id : s \in d.subscriptions})
          HasRow(table) == \E r \in table : r.subscription_id = sid
      IN  [db |-> [d EXCEPT
                !.subscriptions = @ \cup
                    {[id |-> sid, user_id |-> user_id, group_id |-> group_id,
                      notifications_enabled |-> 1]},
                !.notification_settings =
                    IF HasRow(@) THEN @
                    ELSE @ \cup {[subscription_id |-> sid,
                                  notify_before_minutes |-> DefaultGeneralMinutes]},
                !.daily_notifications =
                    IF HasRow(@) THEN @
                    ELSE @ \cup {[subscription_id |-> sid, enabled |-> 1,
                                  notify_before_minutes |-> DefaultDailyMinutes]},
                !.gap_notifications =
                    IF HasRow(@) THEN @
                    ELSE @ \cup {[subscription_id |-> sid, enabled |-> 1,
                                  notify_before_minutes |-> DefaultGapMinutes]},
                !.update_period_settings =
                    IF \E r \in @ : r.group_id = group_id THEN @
                    ELSE @ \cup {[group_id |-> group_id, days |-> DefaultPeriodDays]}],
           ret |-> TRUE]

\* The rows of a preference table that unsubscribe_from_group deletes.
DeleteBySubscription(table, sid) == { r \in table : r.subscription_id # sid }

\* unsubscribe_from_group without the DELETE on teacher_notifications.
unsubscribe_keeping_teacher_patterns(d, telegram_id, group_id) ==
    IF SubscriptionIds(d, telegram_id, group_id) = {}
    THEN [db |-> d, ret |-> FALSE]
    ELSE
      LET sid == CHOOSE i \in SubscriptionIds(d, telegram_id, group_id) : TRUE
      IN  [db |-> [d EXCEPT
                !.subject_notifications = DeleteBySubscription(@, sid),
                !.gap_notifications     = DeleteBySubscription(@, sid),
                !.daily_notifications   = DeleteBySubscription(@, sid),
                !.notification_settings = DeleteBySubscription(@, sid),
                !.subscriptions         = { s \in @ : s.id # sid }],
           ret |-> TRUE]

\* unsubscribe_from_group(user_id, group_id); user_id is a telegram_id.
unsubscribe_from_group(d, telegram_id, group_id) ==
    IF SubscriptionIds(d, telegram_id, group_id) = {}
    THEN [db |-> d, ret |-> FALSE]
    ELSE
      LET sid == CHOOSE i \in SubscriptionIds(d, telegram_id, group_id) : TRUE
      IN  [db |-> [d EXCEPT
                !.subject_notifications = DeleteBySubscription(@, sid),
                !.teacher_notifications = DeleteBySubscription(@, sid),
                !.gap_notifications     = DeleteBySubscription(@, sid),
                !.daily_notifications   = DeleteBySubscription(@, sid),
                !.notification_settings = DeleteBySubscription(@, sid),
                !.subscriptions         = { s \in @ : s.id # sid }],
           ret |-> TRUE]

add_subject_notification(d, telegram_id, group_id, subject_pattern) ==
    IF SubscriptionIds(d, telegram_id, group_id) = {}
    THEN [db |-> d, ret |-> FALSE]
    ELSE
      LET sid == CHOOSE i \in SubscriptionIds(d, telegram_id, group_id) : TRUE
      IN  [db |-> [d EXCEPT !.subject_notifications = @ \cup
                    {[id |-> NextRowId({r.id : r \in @}),
                      subscription_id |-> sid,
                      subject_pattern |-> subject_pattern,
                      notify_before_minutes |-> DefaultPatternMinutes]}],
           ret |-> TRUE]

add_teacher_notification(d, telegram_id, group_id, teacher_pattern) ==
    IF SubscriptionIds(d, telegram_id, group_id) = {}
    THEN [db |-> d, ret |-> FALSE]
    ELSE
      LET sid == CHOOSE i \in SubscriptionIds(d, telegram_id, group_id) : TRUE
      IN  [db |-> [d EXCEPT !.teacher_notifications = @ \cup
                    {[id |-> NextRowId({r.id : r \in @}),
                      subscription_id |-> sid,
                      teacher_pattern |-> teacher_pattern,
                      notify_before_minutes |-> DefaultPatternMinutes]}],
           ret |-> TRUE]

\* UPDATE <table> SET <field> = value WHERE subscription_id IN (the
\* subscriptions of telegram_id to group_id).
UpdateBySubscription(d, table, telegram_id, group_id, field, value) ==
    { IF r.subscription_id \in SubscriptionIds(d, telegram_id, group_id)
      THEN [r EXCEPT ![field] = value] ELSE r : r \in table }

update_notification_settings(d, telegram_id, group_id, minutes) ==
    [d EXCEPT !.notification_settings =
        UpdateBySubscription(d, @, telegram_id, group_id, "notify_before_minutes", minutes)]

\* toggle_notifications as a switch of the whole subscription: the Daily and
\* the Gap row follow the master switch.
toggle_every_category(d, telegram_id, group_id, enabled) ==
    [d EXCEPT
        !.subscriptions =
            { IF s.id \in SubscriptionIds(d, telegram_id, group_id)
              THEN [s EXCEPT !.notifications_enabled = IF enabled THEN 1 ELSE 0]
              ELSE s : s \in @ },
        !.daily_notifications =
            UpdateBySubscription(d, @, telegram_id, group_id, "enabled",
                                 IF enabled THEN 1 ELSE 0),
        !.gap_notifications =
            UpdateBySubscription(d, @, telegram_id, group_id, "enabled",
                                 IF enabled THEN 1 ELSE 0)]

toggle_notifications(d, telegram_id, group_id, enabled) ==
    [d EXCEPT !.subscriptions =
        { IF s.id \in SubscriptionIds(d, telegram_id, group_id)
          THEN [s EXCEPT !.notifications_enabled = IF enabled THEN 1 ELSE 0]
          ELSE s : s \in @ }]

\* update_daily_notification_settings written as an INSERT into a table
\* without the UNIQUE constraint on subscription_id.
update_daily_adding_row(d, telegram_id, group_id, minutes) ==
    [d EXCEPT !.daily_notifications = @ \cup
        { [subscription_id |-> sid, enabled |-> 1,
           notify_before_minutes |-> minutes] :
              sid \in SubscriptionIds(d, telegram_id, group_id) }]

update_daily_notification_settings(d, telegram_id, group_id, minutes) ==
    [d EXCEPT !.daily_notifications =
        UpdateBySubscription(d, @, telegram_id, group_id, "notify_before_minutes", minutes)]

toggle_daily_notifications(d, telegram_id, group_id, enabled) ==
    [d EXCEPT !.daily_notifications =
        UpdateBySubscription(d, @, telegram_id, group_id, "enabled", IF enabled THEN 1 ELSE 0)]

update_gap_notification_settings(d, telegram_id, group_id, minutes) ==
    [d EXCEPT !.gap_notifications =
        UpdateBySubscription(d, @, telegram_id, group_id, "notify_before_minutes", minutes)]

toggle_gap_notifications(d, telegram_id, group_id, enabled) ==
    [d EXCEPT !.gap_notifications =
        UpdateBySubscription(d, @, telegram_id, group_id, "enabled", IF enabled THEN 1 ELSE 0)]

-----------------------------------------------------------------------------
(* Database: the update ledger (table update_info) *)

\* The positions of the rows that WHERE entity_type = ? AND entity_id = ?
\* selects, and that ON CONFLICT(entity_type, entity_id) collides with.  A
\* NULL entity_id equals nothing, not even another NULL.
LedgerMatches(d, entity_type, entity_id) ==
    { i \in 1..Len(d.update_info) :
        /\ d.update_info[i].entity_type = entity_type
        /\ SqlEq(d.update_info[i].entity_id, entity_id) }

\* UPDATE update_info SET ... WHERE entity_type = ? AND entity_id = ?
LedgerUpdate(d, entity_type, entity_id, Change(_)) ==
    [d EXCEPT !.update_info =
        [i \in 1..Len(@) |->
            IF i \in LedgerMatches(d, entity_type, entity_id)
            THEN Change(@[i]) ELSE @[i]]]

start_update(d, entity_type, entity_id, t) ==
    IF LedgerMatches(d, entity_type, entity_id) # {}
    THEN LedgerUpdate(d, entity_type, entity_id,
            LAMBDA r : [r EXCEPT !.last_update = StrfTimestamp(t),
                                 !.status = "in_progress"])
    ELSE [d EXCEPT !.update_info = Append(@,
            [entity_type |-> entity_type, entity_id |-> entity_id,
             last_update |-> StrfTimestamp(t), next_update |-> NullText,
             status |-> "in_progress"])]

\* next_update is a datetime (seconds) or NULL.
complete_update(d, entity_type, entity_id, next_update, status, t) ==
    LedgerUpdate(d, entity_type, entity_id,
        LAMBDA r : [r EXCEPT
            !.last_update = StrfTimestamp(t),
            !.next_update = IF next_update = NULL THEN NullText
                            ELSE StrfTimestamp(next_update),
            !.status = status])

save_update_info(d, entity_type, entity_id, next_update, t) ==
    LET next_update_str == IF next_update = NULL THEN NullText
                           ELSE StrfTimestamp(next_update)
    IN  IF LedgerMatches(d, entity_type, entity_id) # {}
        THEN LedgerUpdate(d, entity_type, entity_id,
                LAMBDA r : [r EXCEPT !.last_update = StrfTimestamp(t),
                                     !.next_update = next_update_str,
                                     !.status = "completed"])
        ELSE [d EXCEPT !.update_info = Append(@,
                [entity_type |-> entity_type, entity_id |-> entity_id,
                 last_update |-> StrfTimestamp(t),
                 next_update |-> next_update_str,
                 status |-> "completed"])]

\* get_update_info: the first matching row with its timestamps parsed;
\* found = FALSE stands for the None returned when no row matches.
get_update_info(d, entity_type, entity_id) ==
    IF LedgerMatches(d, entity_type, entity_id) = {} THEN [found |-> FALSE]
    ELSE
      LET i == CHOOSE j \in LedgerMatches(d, entity_type, entity_id) :
                    \A k \in LedgerMatches(d, entity_type, entity_id) : j <= k
          r == d.update_info[i]
      IN  [found |-> TRUE,
           last_update |-> IF r.last_update = NullText THEN NULL
                           ELSE StrpTimestamp(r.last_update),
           next_update |-> IF r.next_update = NullText THEN NULL
                           ELSE StrpTimestamp(r.next_update),
           status |-> r.status]

is_update_needed(d, entity_type, entity_id, t) ==
    LET update_info == get_update_info(d, entity_type, entity_id)
    IN  IF ~update_info.found THEN TRUE
        ELSE IF update_info.next_update # NULL /\ update_info.next_update > t
             THEN FALSE
        ELSE TRUE

\* check_incomplete_updates: every (entity_type, entity_id) selected with
\* status 'in_progress' is reset by its own UPDATE ... WHERE entity_type = ?
\* AND entity_id = ?; ret is the number of rows selected.
check_incomplete_updates(d) ==
    LET incomplete == { i \in 1..Len(d.update_info) :
                            d.update_info[i].status = "in_progress" }
        Reset(i) ==
            \E k \in incomplete :
                i \in LedgerMatches(d, d.update_info[k].entity_type,
                                       d.update_info[k].entity_id)
    IN  [db |-> [d EXCEPT !.update_info =
                    [i \in 1..Len(@) |->
                        IF Reset(i)
                        THEN [@[i] EXCEPT !.status = "interrupted",
                                          !.next_update = NullText]
                        ELSE @[i]]],
         ret |-> Cardinality(incomplete)]

-----------------------------------------------------------------------------
(* Database: the notification selectors.  A result row is the tuple of the *)
(* columns of the SELECT, in order; a result is the set of its rows.       *)

\* The (subscription, user, group) combinations every selector joins a
\* preference row with: JOIN subscriptions s ON <pref>.subscription_id = s.id
\* JOIN users u ON s.user_id = u.id JOIN groups g ON s.group_id = g.group_id.
SubscriptionJoin(d, subscription_id) ==
    { [s |-> p[1], telegram_id |-> d.users[p[1].user_id],
       name |-> d.groups[p[2]].name] :
        p \in { q \in d.subscriptions \X (1..Len(d.groups)) :
                    /\ q[1].id = subscription_id
                    /\ q[1].user_id \in 1..Len(d.users)
                    /\ d.groups[q[2]].group_id = q[1].group_id } }

\* The stored lessons of a group dated on one of the given dates.
LessonsOn(d, group_id, dates) ==
    { d.lessons[i] : i \in { k \in 1..Len(d.lessons) :
                                /\ d.lessons[k].group_id = group_id
                                /\ d.lessons[k].date \in dates } }

\* The smallest of a non-empty set of zero-padded texts: SQL MIN.
MinText(texts) == CHOOSE a \in texts : \A b \in texts : TupleLeq(a, b)

\* The largest of a non-empty set of zero-padded texts: SQL MAX.
MaxText(texts) == CHOOSE a \in texts : \A b \in texts : TupleLeq(b, a)

\* The columns l.date, l.number, l.time_start, l.time_end, l.subject,
\* l.lesson_type, l.audience, l.teacher, g.name that end the rows of four
\* of the selectors.
LessonColumns(l, name) ==
    <<l.date, l.number, l.time_start, l.time_end, l.subject, l.lesson_type,
      l.audience, l.teacher, name>>

\* The dates `today` and `tomorrow` that four selectors compute themselves.
TodayTomorrow(t) == {StrfDate(t), StrfDate(t + DayLen)}

\* get_daily_notifications_to_send without the condition l.date = ? of the
\* join: the first lesson is looked for among all the stored dates.
get_daily_over_all_dates(d, date_str) ==
    UNION { { <<j.telegram_id, dn.notify_before_minutes,
                MinText({ l.time_start : l \in SeqToSet(LessonsOf(d, j.s.group_id)) }),
                j.name, j.s.group_id>> :
              j \in { k \in SubscriptionJoin(d, dn.subscription_id) :
                        LessonsOf(d, k.s.group_id) # <<>> } } :
            dn \in { x \in d.daily_notifications : x.enabled = 1 } }

get_daily_notifications_to_send(d, date_str) ==
    UNION { { <<j.telegram_id, dn.notify_before_minutes,
                MinText({ l.time_start : l \in LessonsOn(d, j.s.group_id, {date_str}) }),
                j.name, j.s.group_id>> :
              j \in { k \in SubscriptionJoin(d, dn.subscription_id) :
                        LessonsOn(d, k.s.group_id, {date_str}) # {} } } :
            dn \in { x \in d.daily_notifications : x.enabled = 1 } }

\* The pause, in minutes, from which two consecutive pairs count as
\* separated by a gap.
GapMinutes == 40

\* The lessons of the same group and date with a smaller number: the rows
\* the LEFT JOIN of the LessonGaps query pairs l1 with.
Earlier(d, l1) ==
    { d.lessons[i] : i \in { k \in 1..Len(d.lessons) :
                                /\ d.lessons[k].group_id = l1.group_id
                                /\ d.lessons[k].date = l1.date
                                /\ d.lessons[k].number < l1.number } }

\* The HAVING clause with COALESCE(MAX(l2.number), 0): a lesson no other
\* precedes is compared with an ordinal 0.
GapHavingCountingFromZero(d, l1) ==
    LET numbers == { l2.number : l2 \in Earlier(d, l1) } \cup {0}
        maxNumber == CHOOSE n \in numbers : \A m \in numbers : m <= n
        gap == l1.number - maxNumber
    IN  \/ gap > 1
        \/ /\ gap = 1
           /\ Earlier(d, l1) # {}
           /\ JulianMinutesAtLeast(l1.time_start,
                 MaxText({ l2.time_end : l2 \in Earlier(d, l1) }), GapMinutes)

\* The HAVING clause of LessonGaps for the group of l1.
GapHaving(d, l1) ==
    /\ Earlier(d, l1) # {}
    /\ LET maxNumber == CHOOSE n \in { l2.number : l2 \in Earlier(d, l1) } :
                            \A m \in { l2.number : l2 \in Earlier(d, l1) } : m <= n
           gap == l1.number - maxNumber
       IN  \/ gap > 1
           \/ /\ gap = 1
              /\ JulianMinutesAtLeast(l1.time_start,
                    MaxText({ l2.time_end : l2 \in Earlier(d, l1) }), GapMinutes)

\* The common table expression LessonGaps.
LessonGaps(d, dates) ==
    { [group_id |-> l1.group_id, date |-> l1.date, time_start |-> l1.time_start,
       number |-> l1.number] :
        l1 \in { l \in SeqToSet(d.lessons) : l.date \in dates /\ GapHaving(d, l) } }

get_gap_notifications_to_send(d, t) ==
    UNION { UNION { { <<j.telegram_id, gn.notify_before_minutes, l.date, l.time_start>>
                        \o LessonColumns(l, j.name) :
                      l \in { x \in SeqToSet(d.lessons) :
                                \E lg \in LessonGaps(d, TodayTomorrow(t)) :
                                    /\ lg.group_id = j.s.group_id
                                    /\ x.group_id = lg.group_id
                                    /\ x.date = lg.date
                                    /\ x.number = lg.number } } :
                    j \in SubscriptionJoin(d, gn.subscription_id) } :
            gn \in { x \in d.gap_notifications : x.enabled = 1 } }

get_subject_notifications_to_send(d, t) ==
    UNION { UNION { { <<j.telegram_id, sn.notify_before_minutes, l.date, l.time_start,
                        sn.subject_pattern>> \o LessonColumns(l, j.name) :
                      l \in { x \in LessonsOn(d, j.s.group_id, TodayTomorrow(t)) :
                                LowerLikeContains(x.subject, sn.subject_pattern) } } :
                    j \in SubscriptionJoin(d, sn.subscription_id) } :
            sn \in d.subject_notifications }

get_teacher_notifications_to_send(d, t) ==
    UNION { UNION { { <<j.telegram_id, tn.notify_before_minutes, l.date, l.time_start,
                        tn.teacher_pattern>> \o LessonColumns(l, j.name) :
                      l \in { x \in LessonsOn(d, j.s.group_id, TodayTomorrow(t)) :
                                LowerLikeContains(x.teacher, tn.teacher_pattern) } } :
                    j \in SubscriptionJoin(d, tn.subscription_id) } :
            tn \in d.teacher_notifications }

\* get_general_lesson_notifications_to_send without the condition
\* s.notifications_enabled = 1.
get_general_ignoring_master_switch(d, t) ==
    UNION { UNION { { <<j.telegram_id, ns.notify_before_minutes, l.date, l.time_start>>
                        \o LessonColumns(l, j.name) :
                      l \in LessonsOn(d, j.s.group_id, TodayTomorrow(t)) } :
                    j \in SubscriptionJoin(d, ns.subscription_id) } :
            ns \in d.notification_settings }

get_general_lesson_notifications_to_send(d, t) ==
    UNION { UNION { { <<j.telegram_id, ns.notify_before_minutes, l.date, l.time_start>>
                        \o LessonColumns(l, j.name) :
                      l \in LessonsOn(d, j.s.group_id, TodayTomorrow(t)) } :
                    j \in { k \in SubscriptionJoin(d, ns.subscription_id) :
                                k.s.notifications_enabled = 1 } } :
            ns \in d.notification_settings }

-----------------------------------------------------------------------------
(* bot.py: the notification check *)

\* Width of the due window, in minutes.
DueWindowMinutes == 5

\* The due test without its lower bound: time_diff_minutes <= 5.
IsDueOrOverdue(lesson_date, lesson_time, notify_before_minutes, current_time) ==
    LET lesson_datetime == StrpDateTime(lesson_date, lesson_time)
        notify_time == lesson_datetime - notify_before_minutes * Minute
    IN  /\ lesson_datetime # NULL
        /\ notify_time - current_time <= DueWindowMinutes * Minute

\* The due test every category applies to a candidate: the lesson start is
\* parsed, the lead time subtracted, and the candidate is due when
\* 0 <= time_diff_minutes <= 5.  A text strptime rejects raises ValueError,
\* which the except clause around the candidate catches: not due.
IsDue(lesson_date, lesson_time, notify_before_minutes, current_time) ==
    LET lesson_datetime == StrpDateTime(lesson_date, lesson_time)
        notify_time == lesson_datetime - notify_before_minutes * Minute
    IN  /\ lesson_datetime # NULL
        /\ 0 <= notify_time - current_time
        /\ notify_time - current_time <= DueWindowMinutes * Minute

\* The number of names on the left of the tuple assignment that opens the
\* loop body of each category.
UnpackWidth(category) ==
    CASE category = "daily"   -> 5
      [] category = "gap"     -> 5
      [] category = "subject" -> 6
      [] category = "teacher" -> 6
      [] category = "general" -> 5

\* The categories in the order check_upcoming_lessons goes through them.
Categories == <<"daily", "gap", "subject", "teacher", "general">>

\* The rows the selector of a category returns at current_time.
Candidates(d, category, current_time) ==
    CASE category = "daily"   ->
            get_daily_notifications_to_send(d, StrfDate(current_time))
      [] category = "gap"     -> get_gap_notifications_to_send(d, current_time)
      [] category = "subject" -> get_subject_notifications_to_send(d, current_time)
      [] category = "teacher" -> get_teacher_notifications_to_send(d, current_time)
      [] category = "general" ->
            get_general_lesson_notifications_to_send(d, current_time)

\* `a, b, ... = notification` raises ValueError unless the row has as many
\* columns as there are names.  The assignment stands outside the try of the
\* candidate, so the error leaves the loop and the function body.
UnpackFails(category, rows) == \E r \in rows : Len(r) # UnpackWidth(category)

\* Whether a row that unpacked is sent in the cycle at current_time.
RowIsSent(d, category, r, current_time) ==
    IF category = "daily"
    THEN /\ IsDue(StrfDate(current_time), r[3], r[2], current_time)
         /\ get_timetable_for_group(d, r[5], StrfDate(current_time)) # {}
    ELSE IsDue(r[3], r[4], r[2], current_time)

\* One send_message call.
Message(category, r, current_time) ==
    [chat_id |-> r[1], category |-> category, row |-> r, at |-> current_time]

\* The send_message calls of the categories from position i on, up to the
\* first category whose tuple assignment raises.
RECURSIVE SendsFrom(_, _, _)
SendsFrom(d, i, current_time) ==
    IF i > Len(Categories) THEN {}
    ELSE LET category == Categories[i]
             rows == Candidates(d, category, current_time)
         IN  IF UnpackFails(category, rows) THEN {}
             ELSE { Message(category, r, current_time) :
                        r \in { x \in rows : RowIsSent(d, category, x, current_time) } }
                  \cup SendsFrom(d, i + 1, current_time)

\* The categories whose loop is never entered or is left by the ValueError:
\* those at and after the first category whose tuple assignment raises.
RECURSIVE FirstFailing(_, _, _)
FirstFailing(d, i, current_time) ==
    IF i > Len(Categories) THEN 0
    ELSE IF UnpackFails(Categories[i], Candidates(d, Categories[i], current_time))
         THEN i
    ELSE FirstFailing(d, i + 1, current_time)

\* check_upcoming_lessons with a log of what was sent: a candidate row a
\* message was already sent for is skipped.
check_upcoming_lessons_with_sent_log(d, current_time) ==
    [sends   |-> { m \in SendsFrom(d, 1, current_time) :
                     ~\E p \in sent : p.category = m.category /\ p.row = m.row },
     aborted |-> FirstFailing(d, 1, current_time)]

\* check_upcoming_lessons(context) at the instant current_time: the calls
\* made on the Delivery Sink, and the position of the category at which the
\* outer except clause ended the cycle (0: the cycle went through).
check_upcoming_lessons(d, current_time) ==
    [sends   |-> SendsFrom(d, 1, current_time),
     aborted |-> FirstFailing(d, 1, current_time)]

-----------------------------------------------------------------------------
(* Database: the look-ahead setting of a group *)

set_update_period_for_group(d, group_id, days) ==
    [d EXCEPT !.update_period_settings =
        { r \in @ : r.group_id # group_id }
            \cup {[group_id |-> group_id, days |-> days]}]

\* get_update_period_for_group stores the default when the group has no row.
get_update_period_for_group(d, group_id) ==
    IF \E r \in d.update_period_settings : r.group_id = group_id
    THEN [db |-> d,
          ret |-> (CHOOSE r \in d.update_period_settings :
                        r.group_id = group_id).days]
    ELSE [db |-> set_update_period_for_group(d, group_id, DefaultPeriodDays),
          ret |-> DefaultPeriodDays]

-----------------------------------------------------------------------------
(* bot.py: the refresh routines *)

\* Delays after which a refresh is due again.
GroupsListPeriod == 7 * DayLen
TimetablePeriod == 24 * Hour
RetryPeriod == 1 * Hour

\* update_groups_list(); `groups` is what get_groups_data() returns, a list
\* of [name, value] records, empty on failure.
RECURSIVE AddGroups(_, _)
AddGroups(d, groups) ==
    IF groups = <<>> THEN d
    ELSE AddGroups(add_group(d, Head(groups).name, Head(groups).value), Tail(groups))

update_groups_list(d, groups, t) ==
    IF ~is_update_needed(d, "groups_list", NULL, t) THEN d
    ELSE LET started == start_update(d, "groups_list", NULL, t)
         IN  IF groups # <<>>
             THEN complete_update(AddGroups(started, groups), "groups_list", NULL,
                                  t + GroupsListPeriod, "completed", t)
             ELSE complete_update(started, "groups_list", NULL,
                                  t + RetryPeriod, "failed", t)

\* update_timetable_for_group without the test `if lessons:`: whatever the
\* fetch returned is saved and the refresh is recorded as completed.
update_timetable_saving_empty_fetch(d, group_id, lessons, fails, t) ==
    [db |-> complete_update(
                save_timetable(start_update(d, "timetable", group_id, t),
                               group_id, lessons, fails).db,
                "timetable", group_id, t + TimetablePeriod, "completed", t),
     ret |-> TRUE]

\* update_timetable_for_group(group_id, days); `lessons` is what
\* parse_timetable returns for the span, empty on failure, and `fails` says
\* whether the transaction of save_timetable raises.  The value save_timetable
\* returns is not looked at.
update_timetable_for_group(d, group_id, lessons, fails, t) ==
    LET started == start_update(d, "timetable", group_id, t)
    IN  IF lessons # <<>>
        THEN [db |-> complete_update(
                        save_timetable(started, group_id, lessons, fails).db,
                        "timetable", group_id, t + TimetablePeriod, "completed", t),
              ret |-> TRUE]
        ELSE [db |-> complete_update(started, "timetable", group_id,
                                     t + RetryPeriod, "failed", t),
              ret |-> FALSE]

-----------------------------------------------------------------------------
(* Inputs *)

\* External identifiers of the groups of the catalog, and the catalog
\* get_groups_data() returns when the site answers.
GroupIds == {11, 12}
Catalog == <<[name |-> "G-11", value |-> 11], [name |-> "G-12", value |-> 12]>>

\* The catalog after the site renamed the group 11.
CatalogRenamed ==
    <<[name |-> "G-11M", value |-> 11], [name |-> "G-12", value |-> 12]>>

\* Chat identities of the users.
TelegramIds == {901, 902}

\* The bot is started on 31.12.2025 at 07:20:00.
StartTime == 364 * DayLen + 7 * Hour + 20 * Minute
Today == StrfDate(StartTime)
Tomorrow == StrfDate(StartTime + DayLen)

\* Texts, as code points: "Математика (лекция)", "МАТЕМАТИКА", "Физика",
\* "Mathematics", "матем", "math", "Иванов И.И.", "Petrov P.", "иванов",
\* "PETROV".
TxtMatematikaLek ==
    <<1052, 1072, 1090, 1077, 1084, 1072, 1090, 1080, 1082, 1072, 32, 40,
      1083, 1077, 1082, 1094, 1080, 1103, 41>>
TxtMATEMATIKA == <<1052, 1040, 1058, 1045, 1052, 1040, 1058, 1048, 1050, 1040>>
TxtFizika == <<1060, 1080, 1079, 1080, 1082, 1072>>
TxtMathematics == <<77, 97, 116, 104, 101, 109, 97, 116, 105, 99, 115>>
TxtMatem == <<1084, 1072, 1090, 1077, 1084>>
TxtMath == <<109, 97, 116, 104>>
TxtIvanov == <<1048, 1074, 1072, 1085, 1086, 1074, 32, 1048, 46, 1048, 46>>
TxtPetrov == <<80, 101, 116, 114, 111, 118, 32, 80, 46>>
TxtIvanovLower == <<1080, 1074, 1072, 1085, 1086, 1074>>
TxtPETROV == <<80, 69, 84, 82, 79, 86>>

\* "Матем".
TxtMatemCapital == <<1052, 1072, 1090, 1077, 1084>>

\* A lesson record as parse_timetable builds it.
FetchedLesson(date, number, time_start, time_end, subject, teacher) ==
    [date |-> date, number |-> number, time_start |-> time_start,
     time_end |-> time_end, subject |-> subject, type |-> "lecture",
     audience |-> "A-101", teacher |-> teacher, group |-> "G"]

\* Timetables the site may return: pairs 1 and 3 today and pair 1 tomorrow;
\* a single pair today; pairs 1 and 2 tomorrow.
ListA ==
    << FetchedLesson(Today, <<1>>, <<8, 30>>, <<10, 0>>, TxtMatematikaLek, TxtIvanov),
       FetchedLesson(Today, <<3>>, <<12, 10>>, <<13, 40>>, TxtFizika, TxtPetrov),
       FetchedLesson(Tomorrow, <<1>>, <<8, 30>>, <<10, 0>>, TxtMathematics, TxtPetrov) >>
ListB ==
    << FetchedLesson(Today, <<2>>, <<10, 10>>, <<11, 40>>, TxtFizika, TxtIvanov) >>
ListC ==
    << FetchedLesson(Tomorrow, <<1>>, <<8, 30>>, <<10, 0>>, TxtMATEMATIKA, TxtIvanov),
       FetchedLesson(Tomorrow, <<2>>, <<10, 10>>, <<11, 40>>, TxtMathematics, TxtPetrov) >>

\* Today: pair 1 from 06:50 and pair 3 from 08:30.
ListD ==
    << FetchedLesson(Today, <<1>>, <<6, 50>>, <<8, 20>>, TxtFizika, TxtIvanov),
       FetchedLesson(Today, <<3>>, <<8, 30>>, <<10, 0>>, TxtMathematics, TxtPetrov) >>

\* Today pair 2 from 10:10 listed before pair 1 from 08:30, tomorrow a pair
\* from 07:00, and a pair on the day after tomorrow.
ListE ==
    << FetchedLesson(Today, <<2>>, <<10, 10>>, <<11, 40>>, TxtFizika, TxtIvanov),
       FetchedLesson(Today, <<1>>, <<8, 30>>, <<10, 0>>, TxtMathematics, TxtPetrov),
       FetchedLesson(Tomorrow, <<1>>, <<7, 0>>, <<8, 30>>, TxtFizika, TxtPetrov),
       FetchedLesson(StrfDate(StartTime + 2 * DayLen), <<1>>, <<6, 30>>, <<8, 0>>,
                     TxtMathematics, TxtIvanov) >>

\* What a step records about itself.
Step(op, user, group, input, ret) ==
    [op |-> op, user |-> user, group |-> group, input |-> input, ret |-> ret,
     at |-> now]

\* The jobs main() registers, with the delay of their first run.
\* `running` holds the callbacks that have begun and not returned, each with
\* the instant it began.
ScheduleJobs(t) ==
    [groups_once |-> t + 5, groups |-> t + 86400, timetable |-> t + 10,
     check |-> t + 5, running |-> {}]

\* Period of the notification check job.
CheckInterval == 120

-----------------------------------------------------------------------------
(* Steps of the bot process *)

\* main.py: the process starts, resets the refreshes a previous run left
\* unfinished, and main() registers the jobs.
Startup ==
    /\ ~up
    /\ LET r == check_incomplete_updates(db)
       IN  /\ db' = r.db
           /\ last' = Step("startup", NULL, NULL, <<>>, r.ret)
    /\ up' = TRUE
    /\ nextRun' = ScheduleJobs(now)
    /\ UNCHANGED <<now, sent>>

\* The process is killed between two handlers.
Crash ==
    /\ up
    /\ up' = FALSE
    /\ last' = Step("crash", NULL, NULL, <<>>, NULL)
    /\ UNCHANGED <<db, now, nextRun, sent>>

\* The process is killed while update_timetable_for_group waits for the
\* site: start_update has committed, nothing else has run.
CrashInTimetableUpdate(group_id) ==
    /\ up
    /\ \E i \in 1..Len(db.groups) : db.groups[i].group_id = group_id
    /\ db' = start_update(db, "timetable", group_id, now)
    /\ up' = FALSE
    /\ last' = Step("crash_in_update", NULL, group_id, <<>>, NULL)
    /\ UNCHANGED <<now, nextRun, sent>>

\* The process is killed while update_groups_list waits for the site.
CrashInGroupsUpdate ==
    /\ up
    /\ is_update_needed(db, "groups_list", NULL, now)
    /\ db' = start_update(db, "groups_list", NULL, now)
    /\ up' = FALSE
    /\ last' = Step("crash_in_groups_update", NULL, NULL, <<>>, NULL)
    /\ UNCHANGED <<now, nextRun, sent>>

\* handle_group_name_input / quick_search: the group list is refreshed
\* before the search.
SearchGroups(groups) ==
    /\ up
    /\ db' = update_groups_list(db, groups, now)
    /\ last' = Step("update_groups_list", NULL, NULL, groups, NULL)
    /\ UNCHANGED <<now, up, nextRun, sent>>

\* handle_callback 'update_timetable_<group>': the user forces a refresh.
ForceUpdate(group_id, lessons, fails) ==
    /\ up
    /\ \E i \in 1..Len(db.groups) : db.groups[i].group_id = group_id
    /\ LET period == get_update_period_for_group(db, group_id)
           r == update_timetable_for_group(period.db, group_id, lessons, fails, now)
       IN  /\ db' = r.db
           /\ last' = Step("update_timetable_for_group", NULL, group_id,
                           [lessons |-> lessons, fails |-> fails], r.ret)
    /\ UNCHANGED <<now, up, nextRun, sent>>

\* handle_callback 'group_<group>': the user picks a group of the search
\* result; a new subscription refreshes the group's timetable at once.
Subscribe(telegram_id, group_id, lessons, fails) ==
    /\ up
    /\ \E i \in 1..Len(db.groups) : db.groups[i].group_id = group_id
    /\ LET user == add_user(db, telegram_id)
           result == subscribe_to_group(user.db, user.ret, group_id)
       IN  /\ db' = IF result.ret
                    THEN update_timetable_for_group(result.db, group_id,
                                                    lessons, fails, now).db
                    ELSE result.db
           /\ last' = Step("subscribe", telegram_id, group_id,
                           [lessons |-> lessons, fails |-> fails], result.ret)
    /\ UNCHANGED <<now, up, nextRun, sent>>

\* handle_callback 'unsubscribe_<group>'.  The step records how many
\* subject patterns the subscription had.
Unsubscribe(telegram_id, group_id) ==
    /\ up
    /\ LET result == unsubscribe_from_group(db, telegram_id, group_id)
       IN  /\ db' = result.db
           /\ last' = Step("unsubscribe", telegram_id, group_id,
                           Cardinality({ r \in db.subject_notifications :
                               r.subscription_id \in
                                   SubscriptionIds(db, telegram_id, group_id) }),
                           result.ret)
    /\ UNCHANGED <<now, up, nextRun, sent>>

\* handle_subject_name_input: the user typed a subject pattern.
AddSubject(telegram_id, group_id, user_input) ==
    /\ up
    /\ LET result == add_subject_notification(db, telegram_id, group_id, user_input)
       IN  /\ db' = result.db
           /\ last' = Step("add_subject", telegram_id, group_id, user_input,
                           result.ret)
    /\ UNCHANGED <<now, up, nextRun, sent>>

\* handle_teacher_name_input: the user typed a teacher pattern.
AddTeacher(telegram_id, group_id, user_input) ==
    /\ up
    /\ LET result == add_teacher_notification(db, telegram_id, group_id, user_input)
       IN  /\ db' = result.db
           /\ last' = Step("add_teacher", telegram_id, group_id, user_input,
                           result.ret)
    /\ UNCHANGED <<now, up, nextRun, sent>>

\* handle_callback 'daily_notify_off_<group>'.
DailyNotifyOff(telegram_id, group_id) ==
    /\ up
    /\ db' = toggle_daily_notifications(db, telegram_id, group_id, FALSE)
    /\ last' = Step("daily_notify_off", telegram_id, group_id, <<>>, NULL)
    /\ UNCHANGED <<now, up, nextRun, sent>>

\* handle_callback 'daily_notify_<minutes>_<group>'.
DailyNotify(telegram_id, group_id, minutes) ==
    /\ up
    /\ db' = toggle_daily_notifications(
                update_daily_notification_settings(db, telegram_id, group_id, minutes),
                telegram_id, group_id, TRUE)
    /\ last' = Step("daily_notify", telegram_id, group_id, minutes, NULL)
    /\ UNCHANGED <<now, up, nextRun, sent>>

\* handle_callback 'notify_off_<group>'.
NotifyOff(telegram_id, group_id) ==
    /\ up
    /\ db' = toggle_notifications(db, telegram_id, group_id, FALSE)
    /\ last' = Step("notify_off", telegram_id, group_id, <<>>, NULL)
    /\ UNCHANGED <<now, up, nextRun, sent>>

\* handle_callback 'notify_<minutes>_<group>'.
Notify(telegram_id, group_id, minutes) ==
    /\ up
    /\ db' = toggle_notifications(
                update_notification_settings(db, telegram_id, group_id, minutes),
                telegram_id, group_id, TRUE)
    /\ last' = Step("notify", telegram_id, group_id, minutes, NULL)
    /\ UNCHANGED <<now, up, nextRun, sent>>

\* handle_callback 'gap_notify_off_<group>'.
GapNotifyOff(telegram_id, group_id) ==
    /\ up
    /\ db' = toggle_gap_notifications(db, telegram_id, group_id, FALSE)
    /\ last' = Step("gap_notify_off", telegram_id, group_id, <<>>, NULL)
    /\ UNCHANGED <<now, up, nextRun, sent>>

\* handle_callback 'gap_notify_<minutes>_<group>'.
GapNotify(telegram_id, group_id, minutes) ==
    /\ up
    /\ db' = toggle_gap_notifications(
                update_gap_notification_settings(db, telegram_id, group_id, minutes),
                telegram_id, group_id, TRUE)
    /\ last' = Step("gap_notify", telegram_id, group_id, minutes, NULL)
    /\ UNCHANGED <<now, up, nextRun, sent>>

\* A call of Database.get_general_lesson_notifications_to_send().
GetGeneralNotifications ==
    /\ up
    /\ last' = Step("get_general_lesson_notifications_to_send", NULL, NULL, <<>>,
                    get_general_lesson_notifications_to_send(db, now))
    /\ UNCHANGED <<db, now, up, nextRun, sent>>

\* A call of Database.get_daily_notifications_to_send(current_date).
GetDailyNotifications ==
    /\ up
    /\ last' = Step("get_daily_notifications_to_send", NULL, NULL, <<>>,
                    get_daily_notifications_to_send(db, StrfDate(now)))
    /\ UNCHANGED <<db, now, up, nextRun, sent>>

\* The job queue runs check_upcoming_lessons: the cycle reads the clock, and
\* the job is due again CheckInterval later.
JobCheckUpcomingLessons ==
    /\ up
    /\ now' = nextRun.check
    /\ LET cycle == check_upcoming_lessons(db, nextRun.check)
       IN  /\ sent' = sent \cup cycle.sends
           /\ last' = [op |-> "check", user |-> NULL, group |-> NULL,
                       input |-> <<>>, ret |-> cycle.aborted, at |-> nextRun.check]
    /\ nextRun' = [nextRun EXCEPT !.check = @ + CheckInterval]
    /\ UNCHANGED <<db, up>>

\* A call of Database.get_gap_notifications_to_send().
GetGapNotifications ==
    /\ up
    /\ last' = Step("get_gap_notifications_to_send", NULL, NULL, <<>>,
                    get_gap_notifications_to_send(db, now))
    /\ UNCHANGED <<db, now, up, nextRun, sent>>

\* A call of Database.get_subject_notifications_to_send().
GetSubjectNotifications ==
    /\ up
    /\ last' = Step("get_subject_notifications_to_send", NULL, NULL, <<>>,
                    get_subject_notifications_to_send(db, now))
    /\ UNCHANGED <<db, now, up, nextRun, sent>>

\* A call of Database.get_teacher_notifications_to_send().
GetTeacherNotifications ==
    /\ up
    /\ last' = Step("get_teacher_notifications_to_send", NULL, NULL, <<>>,
                    get_teacher_notifications_to_send(db, now))
    /\ UNCHANGED <<db, now, up, nextRun, sent>>

\* The database after the catalog was loaded and the user 901 subscribed to
\* group 11, whose timetable the subscription fetched.
Subscribed(lessons) ==
    LET catalog == update_groups_list(EmptyDb, Catalog, StartTime)
        user == add_user(catalog, 901)
        result == subscribe_to_group(user.db, user.ret, 11)
    IN  update_timetable_for_group(result.db, 11, lessons, FALSE, StartTime).db

\* A call of Database.save_timetable(group_id, lessons).
SaveTimetable(group_id, lessons, fails) ==
    /\ up
    /\ LET result == save_timetable(db, group_id, lessons, fails)
       IN  /\ db' = result.db
           /\ last' = Step("save_timetable", NULL, group_id,
                           [lessons |-> lessons, fails |-> fails,
                            stored |-> Len(LessonsOf(db, group_id))],
                           result.ret)
    /\ UNCHANGED <<now, up, nextRun, sent>>

\* api.py, POST /timetable/{group_id}/update.
ApiUpdateTimetable(group_id, lessons, fails) ==
    /\ lessons # <<>>
    /\ db' = save_update_info(save_timetable(db, group_id, lessons, fails).db,
                              "timetable", group_id, now + 24 * Hour, now)
    /\ last' = Step("api_update_timetable", NULL, group_id,
                    [lessons |-> lessons, fails |-> fails], NULL)
    /\ UNCHANGED <<now, up, nextRun, sent>>

-----------------------------------------------------------------------------
(* Specification of the refresh life cycle: the group list, the timetables *)
(* of the groups and the update ledger, across restarts.                   *)

\* Bound: rows of update_info.
MaxLedgerRows == 3

\* What the site may answer to a timetable request.
Timetables == {<<>>, ListA, ListB}

Init ==
    /\ db = EmptyDb
    /\ now = StartTime
    /\ up = FALSE
    /\ nextRun = ScheduleJobs(StartTime)
    /\ sent = {}
    /\ last = Step("init", NULL, NULL, <<>>, NULL)

\* The ledger grows without limit in the program (every refresh of the
\* group list adds a row); the model follows it up to MaxLedgerRows rows.
LedgerBounded == Len(db'.update_info) <= MaxLedgerRows

Next ==
    \/ Startup
    \/ Crash
    \/ \E g \in GroupIds : CrashInTimetableUpdate(g) /\ LedgerBounded
    \/ CrashInGroupsUpdate /\ LedgerBounded
    \/ \E groups \in {<<>>, Catalog, CatalogRenamed} :
            SearchGroups(groups) /\ LedgerBounded
    \/ \E g \in GroupIds, lessons \in Timetables, fails \in BOOLEAN :
            ForceUpdate(g, lessons, fails) /\ LedgerBounded

Spec == Init /\ [][Next]_vars

-----------------------------------------------------------------------------
(* Properties of the refresh life cycle *)

\* The stored rows of a fetched list.
RowsOf(group_id, lessons) ==
    [i \in 1..Len(lessons) |-> LessonRow(group_id, lessons[i])]

\* The last step was update_timetable_for_group on a fetch that returned
\* lessons (TRUE) or nothing (FALSE).
RefreshedWith(nonEmpty) ==
    /\ last.op = "update_timetable_for_group"
    /\ (last.input.lessons # <<>>) = nonEmpty

\* The ledger entry of a group's timetable has the given status and its
\* next-due time is `delay` after the instant t.
LedgerEntryIs(d, group_id, status, t, delay) ==
    LET info == get_update_info(d, "timetable", group_id)
    IN  /\ info.found
        /\ info.status = status
        /\ info.next_update = t + delay

\* C5: when the fetch for a group returns a non-empty list,
\* update_timetable_for_group leaves the group's stored lessons equal to the
\* fetched list and its ledger entry completed with next-due = now + 24 hours.
C5_NonEmptyFetchReplaces ==
    RefreshedWith(TRUE) =>
        /\ LessonsOf(db, last.group) = RowsOf(last.group, last.input.lessons)
        /\ LedgerEntryIs(db, last.group, "completed", last.at, 24 * Hour)

\* C6: when the fetch for a group returns an empty list, no stored lesson
\* changes and the group's ledger entry becomes failed with
\* next-due = now + 1 hour.
C6_EmptyFetchKeepsLessons ==
    [][ (last'.op = "update_timetable_for_group" /\ last'.input.lessons = <<>>) =>
            /\ db'.lessons = db.lessons
            /\ LedgerEntryIs(db', last'.group, "failed", last'.at, 1 * Hour) ]_vars

\* C6 witness: an empty fetch has been handled for a group that has stored
\* lessons, and its entry is failed.
C6_Witness ==
    /\ RefreshedWith(FALSE)
    /\ LessonsOf(db, last.group) # <<>>
    /\ LedgerEntryIs(db, last.group, "failed", last.at, 1 * Hour)

\* C7: after check_incomplete_updates at startup every ledger entry that was
\* in_progress, a timetable entry or the group-list entry, is interrupted
\* with next_update cleared, no entry is in_progress, and is_update_needed
\* is true for each of them.
C7_StartupResetsInProgress ==
    [][ last'.op = "startup" =>
            /\ \A i \in 1..Len(db.update_info) :
                  db.update_info[i].status = "in_progress" =>
                      /\ db'.update_info[i].status = "interrupted"
                      /\ db'.update_info[i].next_update = NullText
                      /\ is_update_needed(db', db.update_info[i].entity_type,
                                          db.update_info[i].entity_id, now')
            /\ \A i \in 1..Len(db'.update_info) :
                  db'.update_info[i].status # "in_progress" ]_vars

-----------------------------------------------------------------------------
(* Specification of the registry: users subscribe, add patterns, change   *)
(* a setting and unsubscribe.                                              *)

\* Bounds: the largest rowid of a subscription, and the largest rowid of a
\* row of a pattern table.
MaxRowId == 2
MaxPatternId == 1

InitRegistry ==
    /\ db = update_groups_list(EmptyDb, Catalog, StartTime)
    /\ now = StartTime
    /\ up = TRUE
    /\ nextRun = ScheduleJobs(StartTime)
    /\ sent = {}
    /\ last = Step("init", NULL, NULL, <<>>, NULL)

RegistryBounded ==
    /\ \A s \in db'.subscriptions : s.id <= MaxRowId
    /\ \A r \in db'.subject_notifications : r.id <= MaxPatternId
    /\ \A r \in db'.teacher_notifications : r.id <= MaxPatternId

\* Who may subscribe to what: one user to both groups, the other to one.
Subscribers == {<<901, 11>>, <<901, 12>>, <<902, 11>>}

NextRegistry ==
    \/ \E p \in Subscribers : Subscribe(p[1], p[2], ListB, FALSE) /\ RegistryBounded
    \/ \E p \in Subscribers : Unsubscribe(p[1], p[2])
    \/ \E p \in Subscribers : AddSubject(p[1], p[2], TxtMatem) /\ RegistryBounded
    \/ \E p \in Subscribers : AddTeacher(p[1], p[2], TxtPETROV) /\ RegistryBounded

SpecRegistry == InitRegistry /\ [][NextRegistry]_vars

\* The five preference tables.
PreferenceTables ==
    {"notification_settings", "daily_notifications", "gap_notifications",
     "subject_notifications", "teacher_notifications"}

\* The rows of a preference table that belong to the subscriptions of a
\* user to a group.
PreferenceRows(d, table, telegram_id, group_id) ==
    { r \in d[table] : r.subscription_id \in SubscriptionIds(d, telegram_id, group_id) }

\* C9: no preference row of the five categories exists without its
\* subscription; after unsubscribe_from_group succeeds for (user, group)
\* every category is empty for that (user, group) and the preferences of
\* the other subscriptions are what they were.
C9_NoOrphanPreferences ==
    [][ /\ \A table \in PreferenceTables : \A r \in db'[table] :
              \E s \in db'.subscriptions : s.id = r.subscription_id
        /\ (last'.op = "unsubscribe" /\ last'.ret = TRUE) =>
              /\ SubscriptionIds(db', last'.user, last'.group) = {}
              /\ \A table \in PreferenceTables :
                    /\ PreferenceRows(db', table, last'.user, last'.group) = {}
                    /\ \A u \in TelegramIds, g \in GroupIds :
                          <<u, g>> # <<last'.user, last'.group>> =>
                              PreferenceRows(db', table, u, g) =
                                  PreferenceRows(db, table, u, g)
      ]_vars

\* C9 witness: an unsubscribe has succeeded for a subscription that had a
\* subject pattern, while another subscription keeps its teacher pattern
\* and its settings.
C9_Witness ==
    /\ last.op = "unsubscribe" /\ last.ret = TRUE
    /\ last.input = 1
    /\ db.subject_notifications = {}
    /\ \E s \in db.subscriptions :
          /\ \E r \in db.teacher_notifications : r.subscription_id = s.id
          /\ \E r \in db.daily_notifications : r.subscription_id = s.id

-----------------------------------------------------------------------------
(* Specification of the lesson store: timetables are saved for the groups *)
(* of the catalog, by the bot's data layer and through the API.           *)

NextStore ==
    \/ \E g \in GroupIds, lessons \in {<<>>, ListA, ListB, ListC}, fails \in BOOLEAN :
            SaveTimetable(g, lessons, fails)
    \/ \E g \in GroupIds, lessons \in {ListA, ListC}, fails \in BOOLEAN :
            ApiUpdateTimetable(g, lessons, fails)

SpecStore == InitRegistry /\ [][NextStore]_vars

\* C10: after save_timetable(g, L) succeeds the stored lessons of g are
\* exactly L, none of the lessons g had before survives (with L empty g has
\* no stored row), and the stored lessons of every other group are
\* unchanged.
C10_SaveReplacesGroupLessons ==
    [][ (last'.op = "save_timetable" /\ last'.ret = TRUE) =>
            /\ LessonsOf(db', last'.group) = RowsOf(last'.group, last'.input.lessons)
            /\ last'.input.lessons = <<>> =>
                  \A i \in 1..Len(db'.lessons) : db'.lessons[i].group_id # last'.group
            /\ \A g \in GroupIds \ {last'.group} :
                  LessonsOf(db', g) = LessonsOf(db, g) ]_vars

\* C10 witness: a successful save of the empty list for a group that had
\* stored lessons, while the other group keeps its own.
C10_Witness ==
    /\ last.op = "save_timetable" /\ last.ret = TRUE
    /\ last.input.lessons = <<>> /\ last.input.stored > 0
    /\ LessonsOf(db, last.group) = <<>>
    /\ \E g \in GroupIds \ {last.group} : LessonsOf(db, g) # <<>>

-----------------------------------------------------------------------------
(* Specification of the notification check: a subscriber with a choice of *)
(* preferences, and the job queue running the check every CheckInterval.  *)

\* Bound: the check cycles followed after the start.
MaxChecks == 25

\* The subscriber's preferences, set through the data layer.
NotifyConfig(lessons, dailyMinutes, generalOn, gapOn, withSubject) ==
    LET daily == update_daily_notification_settings(Subscribed(lessons), 901, 11,
                                                    dailyMinutes)
        general == toggle_notifications(daily, 901, 11, generalOn)
        gap == toggle_gap_notifications(general, 901, 11, gapOn)
    IN  IF withSubject THEN add_subject_notification(gap, 901, 11, TxtMath).db
        ELSE gap

InitNotify ==
    /\ \E lessons \in {ListA, ListC, ListD}, dailyMinutes \in {30, 60},
          generalOn \in BOOLEAN, gapOn \in BOOLEAN, withSubject \in BOOLEAN :
            db = NotifyConfig(lessons, dailyMinutes, generalOn, gapOn, withSubject)
    /\ now \in {StartTime, StartTime + Minute}
    /\ up = TRUE
    /\ nextRun = ScheduleJobs(now)
    /\ sent = {}
    /\ last = Step("init", NULL, NULL, <<>>, NULL)

NextNotify ==
    /\ nextRun.check < StartTime + MaxChecks * CheckInterval
    /\ JobCheckUpcomingLessons

SpecNotify == InitNotify /\ [][NextNotify]_vars

\* The start S of the lesson of a candidate row, NULL when it cannot be
\* read: the first lesson of the day for Daily, the lesson itself otherwise.
LessonStart(category, r, t) ==
    IF category = "daily" THEN StrpDateTime(StrfDate(t), r[3])
    ELSE StrpDateTime(r[3], r[4])

\* 0 <= (S - L minutes) - t <= 5 minutes, L being the lead of the row.
InDueWindow(category, r, t) ==
    LET S == LessonStart(category, r, t)
    IN  /\ S # NULL
        /\ 0 <= (S - r[2] * Minute) - t
        /\ (S - r[2] * Minute) - t <= 5 * Minute

CategorySet == {"daily", "gap", "subject", "teacher", "general"}

\* The messages sent so far for a candidate row.
Deliveries(category, r) == { m \in sent : m.category = category /\ m.row = r }

\* C1: with the check running every 120 seconds and the process up, each
\* candidate is delivered exactly once: whenever a cycle finds it in its due
\* window, it has been delivered once, in the first such cycle, and not again.
C1_DeliveredExactlyOnce ==
    last.op = "check" =>
        \A category \in CategorySet : \A r \in Candidates(db, category, now) :
            InDueWindow(category, r, now) =>
                Cardinality(Deliveries(category, r)) = 1

\* C2: in a check cycle a candidate of any of the five categories is sent
\* if and only if 0 <= (S - L minutes) - now <= 5 minutes.
C2_DueIffInWindow ==
    last.op = "check" =>
        \A category \in CategorySet : \A r \in Candidates(db, category, now) :
            (Message(category, r, now) \in sent) <=> InDueWindow(category, r, now)

\* C3: in every check cycle every candidate that is due under any of the
\* five rules is handed to the Delivery Sink in that cycle.
C3_EveryDueCandidateSent ==
    last.op = "check" =>
        \A category \in CategorySet : \A r \in Candidates(db, category, now) :
            InDueWindow(category, r, now) => Message(category, r, now) \in sent

\* The lesson a candidate row of the Gap, Subject, Teacher or General
\* category is about: the lesson columns that end the row.
LessonOfRow(r) == SubSeq(r, Len(r) - 8, Len(r))

LessonCategories == {"gap", "subject", "teacher", "general"}

\* C11: when the same lesson is due for the same user under two categories in
\* one check cycle, that cycle delivers two messages, one per category.
C11_OneMessagePerCategory ==
    last.op = "check" =>
        \A c1 \in LessonCategories, c2 \in LessonCategories :
            c1 # c2 =>
                \A r1 \in Candidates(db, c1, now), r2 \in Candidates(db, c2, now) :
                    ( /\ r1[1] = r2[1]
                      /\ LessonOfRow(r1) = LessonOfRow(r2)
                      /\ InDueWindow(c1, r1, now)
                      /\ InDueWindow(c2, r2, now) )
                    => /\ Message(c1, r1, now) \in sent
                       /\ Message(c2, r2, now) \in sent

-----------------------------------------------------------------------------
(* Specification of the gap rule: a subscriber of a group whose day is    *)
(* drawn from a family of schedules, and the gap selector run on it.      *)

\* Minutes since midnight as the pair <<hour, minute>> of an HH:MM text.
HourMinute(m) == <<m \div 60, m % 60>>

\* A school day: pair 1 from 08:00 to firstEnd; a second lesson with the
\* ordinal secondNumber after a pause of pause1 minutes; and, when `third`,
\* a lesson with the next ordinal after a pause of pause2 minutes.  Every
\* lesson after the first lasts 90 minutes.
DaySchedule(date, firstEnd, pause1, secondNumber, third, pause2) ==
    LET secondStart == firstEnd + pause1
        thirdStart == secondStart + 90 + pause2
        first == FetchedLesson(date, <<1>>, <<8, 0>>, HourMinute(firstEnd),
                               TxtFizika, TxtIvanov)
        second == FetchedLesson(date, <<secondNumber>>, HourMinute(secondStart),
                                HourMinute(secondStart + 90), TxtMathematics, TxtPetrov)
        last3 == FetchedLesson(date, <<secondNumber + 1>>, HourMinute(thirdStart),
                               HourMinute(thirdStart + 90), TxtFizika, TxtPetrov)
    IN  IF third THEN <<first, second, last3>> ELSE <<first, second>>

\* The same day with every ordinal moved up by `shift`: the day's record
\* begins at pair 1 + shift.
Renumbered(lessons, shift) ==
    [i \in 1..Len(lessons) |->
        [lessons[i] EXCEPT !.number = <<NumericAffinity(@) + shift>>]]

InitGap ==
    /\ \E date \in {Today, Tomorrow}, firstEnd \in {9 * 60 + 30, 10 * 60},
          pause1 \in {10, 35, 40, 50}, secondNumber \in {2, 3}, shift \in {0, 2} :
            \/ db = Subscribed(Renumbered(
                        DaySchedule(date, firstEnd, pause1, secondNumber, FALSE, 0),
                        shift))
            \/ \E pause2 \in {10, 40} :
                 db = Subscribed(Renumbered(
                        DaySchedule(date, firstEnd, pause1, secondNumber, TRUE,
                                    pause2),
                        shift))
    /\ now = StartTime
    /\ up = TRUE
    /\ nextRun = ScheduleJobs(now)
    /\ sent = {}
    /\ last = Step("init", NULL, NULL, <<>>, NULL)

NextGap == GetGapNotifications

SpecGap == InitGap /\ [][NextGap]_vars

\* Minutes since midnight of an HH:MM text.
MinutesOf(t) == t[1] * 60 + t[2]

\* The lessons of the group and date of l with an ordinal below l's.
Before(d, l) ==
    { x \in SeqToSet(d.lessons) :
        x.group_id = l.group_id /\ x.date = l.date /\ x.number < l.number }

\* The gap rule as stated: a lesson prev with the largest ordinal below n
\* exists, and either n - prev.number > 1, or n - prev.number = 1 and the
\* interval from prev.end to the start of the lesson is at least 40 minutes.
GapFollowing(d, l) ==
    \E prev \in Before(d, l) :
        /\ \A x \in Before(d, l) : x.number <= prev.number
        /\ \/ l.number - prev.number > 1
           \/ /\ l.number - prev.number = 1
              /\ MinutesOf(l.time_start) - MinutesOf(prev.time_end) >= 40

\* C4: get_gap_notifications_to_send flags the lesson with ordinal n of a
\* (group, date) if and only if a lesson prev with the largest ordinal below
\* n exists there and either n - prev.number > 1, or n - prev.number = 1 and
\* the interval from prev.end to the lesson's start is at least 40 minutes.
C4_GapFlagIffSkippedOrLongPause ==
    last.op = "get_gap_notifications_to_send" =>
        \A l \in SeqToSet(db.lessons) :
            (\E r \in last.ret : r[3] = l.date /\ r[6] = l.number)
                <=> GapFollowing(db, l)

-----------------------------------------------------------------------------
(* Specification of pattern matching: a subscriber with one subject       *)
(* pattern and one teacher pattern, a lesson today, and the two pattern   *)
(* selectors run on them.                                                 *)

\* The database of a subscriber of group 11, which has one lesson today,
\* with a subject pattern and a teacher pattern.
MatchConfig(subject, teacher, subject_pattern, teacher_pattern) ==
    add_teacher_notification(
        add_subject_notification(
            Subscribed(<< FetchedLesson(Today, <<1>>, <<8, 30>>, <<10, 0>>,
                                        subject, teacher) >>),
            901, 11, subject_pattern).db,
        901, 11, teacher_pattern).db

\* Texts with the characters '_' and '%': "M_TH", "m_th", "%", "P_trov".
TxtMUnderscoreTH == <<77, Underscore, 84, 72>>
TxtMUnderscoreTh == <<109, Underscore, 116, 104>>
TxtPercent == <<Percent>>
TxtPUnderscoreTrov == <<80, Underscore, 116, 114, 111, 118>>

InitMatch ==
    /\ \E subject \in {TxtMatematikaLek, TxtMATEMATIKA, TxtFizika, TxtMathematics,
                        TxtMUnderscoreTH},
          teacher \in {TxtIvanov, TxtPetrov},
          subject_pattern \in {TxtMatem, TxtMatemCapital, TxtMath,
                                TxtMUnderscoreTh, TxtPercent},
          teacher_pattern \in {TxtIvanovLower, TxtPETROV, TxtPUnderscoreTrov} :
            db = MatchConfig(subject, teacher, subject_pattern, teacher_pattern)
    /\ now = StartTime
    /\ up = TRUE
    /\ nextRun = ScheduleJobs(now)
    /\ sent = {}
    /\ last = Step("init", NULL, NULL, <<>>, NULL)

NextMatch ==
    \/ GetSubjectNotifications
    \/ GetTeacherNotifications

SpecMatch == InitMatch /\ [][NextMatch]_vars

\* The lower-case form of a letter: Latin A-Z, Cyrillic A-YA and IO.
LetterLower(c) ==
    IF c \in 65..90 \/ c \in 1040..1071 THEN c + 32
    ELSE IF c = 1025 THEN 1105
    ELSE c

\* Whether text contains pattern, ignoring the case of the letters.
ContainsIgnoringCase(text, pattern) ==
    \E i \in 0..(Len(text) - Len(pattern)) :
        \A k \in 1..Len(pattern) :
            LetterLower(text[i + k]) = LetterLower(pattern[k])

\* C8: a Subject (Teacher) preference row with pattern P selects a lesson in
\* the window if and only if the lesson's subject (teacher) contains P
\* ignoring letter case, for Cyrillic as well as Latin letters.
C8_PatternMatchIgnoresCase ==
    /\ last.op = "get_subject_notifications_to_send" =>
          \A sn \in db.subject_notifications : \A l \in SeqToSet(db.lessons) :
              (\E r \in last.ret : r[5] = sn.subject_pattern /\ r[10] = l.subject)
                  <=> ContainsIgnoringCase(l.subject, sn.subject_pattern)
    /\ last.op = "get_teacher_notifications_to_send" =>
          \A tn \in db.teacher_notifications : \A l \in SeqToSet(db.lessons) :
              (\E r \in last.ret : r[5] = tn.teacher_pattern /\ r[13] = l.teacher)
                  <=> ContainsIgnoringCase(l.teacher, tn.teacher_pattern)

-----------------------------------------------------------------------------
(* Specification of the General and Daily selectors: two users subscribe  *)
(* to a group each, change their General and Daily settings, and the two  *)
(* selectors are run.                                                     *)

\* Who subscribes to what, and the timetable the subscription fetches.
Selecting == {<<901, 11, ListE>>, <<901, 11, ListC>>, <<902, 12, ListA>>,
              <<902, 12, ListE>>}

NextSelect ==
    \/ \E p \in Selecting : Subscribe(p[1], p[2], p[3], FALSE)
    \/ \E p \in Selecting : NotifyOff(p[1], p[2])
    \/ \E p \in Selecting : Notify(p[1], p[2], 15)
    \/ \E p \in Selecting : DailyNotifyOff(p[1], p[2])
    \/ \E p \in Selecting : DailyNotify(p[1], p[2], 90)
    \/ GetGeneralNotifications
    \/ GetDailyNotifications

SpecSelect == InitRegistry /\ [][NextSelect]_vars

\* The chat identity of the user of a subscription, and the name of its
\* group.
ChatOf(d, s) == d.users[s.user_id]
GroupNameOf(d, s) ==
    (CHOOSE g \in SeqToSet(d.groups) : g.group_id = s.group_id).name

\* The stored lessons of the group of a subscription dated on one of the
\* given dates, as positions in the lesson table.
LessonPositions(d, s, dates) ==
    { i \in 1..Len(d.lessons) :
        d.lessons[i].group_id = s.group_id /\ d.lessons[i].date \in dates }

\* The General lead of a subscription.
GeneralLead(d, s) ==
    (CHOOSE ns \in d.notification_settings : ns.subscription_id = s.id)
        .notify_before_minutes

\* The pairs (subscription with the master switch on, lesson of its group
\* dated today or tomorrow).
GeneralPairs(d, t) ==
    { p \in d.subscriptions \X (1..Len(d.lessons)) :
        /\ p[1].notifications_enabled = 1
        /\ p[2] \in LessonPositions(d, p[1],
                        {StrfDate(t), StrfDate(t + DayLen)}) }

\* C12: get_general_lesson_notifications_to_send returns exactly one
\* candidate per pair (subscription with the master switch on, lesson of the
\* subscribed group dated today or tomorrow), with the subscription's
\* general lead; a subscription with the switch off contributes none.
C12_GeneralCandidates ==
    last.op = "get_general_lesson_notifications_to_send" =>
        /\ last.ret =
              { <<ChatOf(db, p[1]), GeneralLead(db, p[1]), db.lessons[p[2]].date,
                  db.lessons[p[2]].time_start>>
                    \o LessonColumns(db.lessons[p[2]], GroupNameOf(db, p[1])) :
                p \in GeneralPairs(db, now) }
        /\ Cardinality(last.ret) = Cardinality(GeneralPairs(db, now))
        /\ \A s \in db.subscriptions : s.notifications_enabled # 1 =>
              \A r \in last.ret : r[1] # ChatOf(db, s)

\* C12 witness: the selector has returned candidates with a changed lead for
\* one subscription while another subscription with lessons today has its
\* master switch off.
C12_Witness ==
    /\ last.op = "get_general_lesson_notifications_to_send"
    /\ \E r \in last.ret : r[2] = 15
    /\ \E s \in db.subscriptions :
          /\ s.notifications_enabled = 0
          /\ LessonPositions(db, s, {Today, Tomorrow}) # {}

\* The Daily row of a subscription.
DailyRow(d, s) == CHOOSE dn \in d.daily_notifications : dn.subscription_id = s.id

\* The start, among the given lesson positions, that no other start precedes.
EarliestStart(d, positions) ==
    CHOOSE t \in { d.lessons[i].time_start : i \in positions } :
        \A i \in positions :
            ~TupleLess(d.lessons[i].time_start, t)

\* The subscriptions with Daily switched on whose group has a lesson on the
\* given date.
DailySubscriptions(d, date) ==
    { s \in d.subscriptions :
        /\ DailyRow(d, s).enabled = 1
        /\ LessonPositions(d, s, {date}) # {} }

\* C13: get_daily_notifications_to_send returns exactly one candidate per
\* (user, group) whose subscription has Daily on and whose group has a lesson
\* on the current date, carrying the earliest start of that date and the
\* Daily lead; a subscription with Daily off contributes none and lessons
\* dated tomorrow never produce a candidate.
C13_DailyCandidates ==
    last.op = "get_daily_notifications_to_send" =>
        /\ last.ret =
              { <<ChatOf(db, s), DailyRow(db, s).notify_before_minutes,
                  EarliestStart(db, LessonPositions(db, s, {StrfDate(now)})),
                  GroupNameOf(db, s), s.group_id>> :
                s \in DailySubscriptions(db, StrfDate(now)) }
        /\ Cardinality(last.ret) = Cardinality(DailySubscriptions(db, StrfDate(now)))
        /\ \A r \in last.ret :
              \E i \in 1..Len(db.lessons) :
                  /\ db.lessons[i].group_id = r[5]
                  /\ db.lessons[i].date = StrfDate(now)
                  /\ db.lessons[i].time_start = r[3]

\* C13 witness: the selector has returned the 08:30 start of a day whose
\* timetable lists the 10:10 pair first and has a 07:00 pair tomorrow, while
\* a subscription with Daily on has lessons only tomorrow.
C13_Witness ==
    /\ last.op = "get_daily_notifications_to_send"
    /\ \E r \in last.ret : r[3] = <<8, 30>> /\ r[2] = 90
    /\ \E s \in db.subscriptions :
          /\ LessonPositions(db, s, {Tomorrow}) # {}
          /\ \E i \in LessonPositions(db, s, {Tomorrow}) :
                db.lessons[i].time_start = <<7, 0>>
          /\ \E i \in LessonPositions(db, s, {Today}) :
                db.lessons[i].time_start = <<10, 10>>
          /\ DailyRow(db, s).enabled = 1
    /\ \E s \in db.subscriptions :
          /\ DailyRow(db, s).enabled = 1
          /\ LessonPositions(db, s, {Today}) = {}
          /\ LessonPositions(db, s, {Tomorrow}) # {}

-----------------------------------------------------------------------------
(* The refresh ledger.                                                    *)

\* C14: right after update_groups_list has fetched a non-empty catalog and
\* recorded the refresh, and for the 7 days that follow, is_update_needed
\* answers that no refresh of the group list is needed.
C14_GroupsListFreshForAWeek ==
    (last.op = "update_groups_list" /\ last.input # <<>>) =>
        \A t \in {now, now + GroupsListPeriod - 1} :
            ~is_update_needed(db, "groups_list", NULL, t)

TerminalStatuses == {"completed", "failed", "error"}

\* The row of the ledger entry of a group's timetable, <<>> when absent.
LedgerRow(d, group_id) ==
    IF LedgerMatches(d, "timetable", group_id) = {} THEN <<>>
    ELSE d.update_info[CHOOSE i \in LedgerMatches(d, "timetable", group_id) : TRUE]

\* The operations that call start_update before they record how the refresh
\* ended.
StartsUpdateFirst == {"update_timetable_for_group", "subscribe", "update_groups_list"}

\* C16: a step that leaves the ledger entry of a group's timetable with a
\* newly written status completed, failed or error either found the entry
\* in_progress or set it in_progress itself before; no operation writes such
\* a status to an entry that is absent or not in_progress.
C16_TerminalOnlyAfterInProgress ==
    [][ \A g \in GroupIds :
            ( /\ LedgerRow(db', g) # LedgerRow(db, g)
              /\ LedgerRow(db', g) # <<>>
              /\ LedgerRow(db', g).status \in TerminalStatuses )
            => \/ last'.op \in StartsUpdateFirst
               \/ /\ LedgerRow(db, g) # <<>>
                  /\ LedgerRow(db, g).status = "in_progress" ]_vars

-----------------------------------------------------------------------------
(* Specification of the job queue: the jobs main() registers fire in the  *)
(* order of their times, the notification check is followed from its      *)
(* beginning to its return, and the process may be killed, stay down and  *)
(* be started again.                                                      *)

\* Bound: minutes after StartTime during which jobs are followed.
MaxJobMinutes == 20

\* The periods of the two refresh jobs.
GroupsJobInterval == 604800
TimetableJobInterval == 86400

\* The number of positional arguments the job queue calls a callback with
\* (its context), were every callback declared with a context parameter.
ParametersTakingContext ==
    [update_groups_list |-> 1, update_timetable_for_all_groups |-> 1,
     check_upcoming_lessons |-> 1]

\* The number of parameters each job callback is declared with.
Parameters ==
    [update_groups_list |-> 0, update_timetable_for_all_groups |-> 0,
     check_upcoming_lessons |-> 1]

\* The job queue calls callback(context).
JobArguments == 1

\* The loop of update_timetable_for_all_groups leaving at the first group
\* whose refresh returns False.
RECURSIVE UpdateGroupsUntilFailure(_, _, _, _)
UpdateGroupsUntilFailure(d, i, fetched, t) ==
    IF i > Len(d.groups) THEN d
    ELSE LET group_id == d.groups[i].group_id
         IN  IF ~is_update_needed(d, "timetable", group_id, t)
             THEN UpdateGroupsUntilFailure(d, i + 1, fetched, t)
             ELSE LET update_days == get_update_period_for_group(d, group_id)
                      r == update_timetable_for_group(update_days.db, group_id,
                              fetched[group_id].lessons, fetched[group_id].fails, t)
                  IN  IF r.ret THEN UpdateGroupsUntilFailure(r.db, i + 1, fetched, t)
                      ELSE r.db

\* update_timetable_for_all_groups(): the groups of the catalog, which the
\* catalog lists in the order of their names; `fetched` gives, for each
\* group, what the site answers.
RECURSIVE UpdateGroupsFrom(_, _, _, _)
UpdateGroupsFrom(d, i, fetched, t) ==
    IF i > Len(d.groups) THEN d
    ELSE LET group_id == d.groups[i].group_id
         IN  IF ~is_update_needed(d, "timetable", group_id, t)
             THEN UpdateGroupsFrom(d, i + 1, fetched, t)
             ELSE LET update_days == get_update_period_for_group(d, group_id)
                  IN  UpdateGroupsFrom(
                          update_timetable_for_group(update_days.db, group_id,
                              fetched[group_id].lessons, fetched[group_id].fails, t).db,
                          i + 1, fetched, t)

update_timetable_for_all_groups(d, fetched, t) == UpdateGroupsFrom(d, 1, fetched, t)

Horizon == StartTime + MaxJobMinutes * Minute

\* The job is the next to fire: no scheduled job has an earlier time.
Earliest(job) ==
    /\ nextRun[job] # NULL
    /\ nextRun[job] <= Horizon
    /\ \A k \in {"groups_once", "groups", "timetable", "check"} :
          nextRun[k] # NULL => nextRun[job] <= nextRun[k]

JobStep(op, input, ret, t) ==
    [op |-> op, user |-> NULL, group |-> NULL, input |-> input, ret |-> ret, at |-> t]

\* The job queue calls update_groups_list(context), for the job that runs
\* once or for the weekly one.  A call with an argument the function has no
\* parameter for raises TypeError before the body begins.  A body that has
\* begun awaits the site; its return is not followed.
JobUpdateGroupsList(job, groups) ==
    /\ up
    /\ Earliest(job)
    /\ now' = nextRun[job]
    /\ IF Parameters.update_groups_list = JobArguments
       THEN /\ db' = update_groups_list(db, groups, nextRun[job])
            /\ last' = JobStep("job_update_groups_list", groups, "begun",
                               nextRun[job])
            /\ nextRun' = [nextRun EXCEPT
                    ![job] = IF job = "groups_once" THEN NULL
                             ELSE @ + GroupsJobInterval,
                    !.running = @ \cup {<<"update_groups_list", nextRun[job]>>}]
       ELSE /\ db' = db
            /\ last' = JobStep("job_update_groups_list", <<>>, "TypeError",
                               nextRun[job])
            /\ nextRun' = [nextRun EXCEPT
                    ![job] = IF job = "groups_once" THEN NULL
                             ELSE @ + GroupsJobInterval]
    /\ UNCHANGED <<up, sent>>

\* The job queue calls update_timetable_for_all_groups(context).
JobUpdateTimetables(fetched) ==
    /\ up
    /\ Earliest("timetable")
    /\ now' = nextRun.timetable
    /\ IF Parameters.update_timetable_for_all_groups = JobArguments
       THEN /\ db' = update_timetable_for_all_groups(db, fetched, nextRun.timetable)
            /\ last' = JobStep("job_update_timetable_for_all_groups", fetched,
                               "begun", nextRun.timetable)
            /\ nextRun' = [nextRun EXCEPT
                    !.timetable = @ + TimetableJobInterval,
                    !.running = @ \cup {<<"update_timetable_for_all_groups",
                                          nextRun.timetable>>}]
       ELSE /\ db' = db
            /\ last' = JobStep("job_update_timetable_for_all_groups", <<>>,
                               "TypeError", nextRun.timetable)
            /\ nextRun' = [nextRun EXCEPT !.timetable = @ + TimetableJobInterval]
    /\ UNCHANGED <<up, sent>>

\* The check cycles in execution.
RunningChecks == { r \in nextRun.running : r[1] = "check" }

\* The job queue calls check_upcoming_lessons(context): the cycle begins and
\* reads the clock.
BeginCheck ==
    /\ up
    /\ Earliest("check")
    /\ RunningChecks = {}
    /\ now' = nextRun.check
    /\ nextRun' = [nextRun EXCEPT !.check = @ + CheckInterval,
                                  !.running = @ \cup {<<"check", nextRun.check>>}]
    /\ last' = JobStep("check_begin", <<>>, NULL, nextRun.check)
    /\ UNCHANGED <<db, up, sent>>

\* The cycle that began at r[2] has awaited its send_message calls and
\* returns.
ReturnFromCheck ==
    /\ up
    /\ \E r \in RunningChecks :
          LET cycle == check_upcoming_lessons(db, r[2])
          IN  /\ sent' = sent \cup cycle.sends
              /\ last' = JobStep("check", <<>>, cycle.aborted, r[2])
              /\ nextRun' = [nextRun EXCEPT !.running = @ \ {r}]
    /\ UNCHANGED <<db, now, up>>

\* The process stays down.
Outage(seconds) ==
    /\ ~up
    /\ last.op = "crash"
    /\ now + seconds <= Horizon
    /\ now' = now + seconds
    /\ last' = Step("outage", NULL, NULL, seconds, NULL)
    /\ UNCHANGED <<db, up, nextRun, sent>>

InitJobs ==
    /\ \E lessons \in {ListA, ListD}, dailyMinutes \in {30, 60} :
            db = NotifyConfig(lessons, dailyMinutes, TRUE, TRUE, FALSE)
    /\ now \in {StartTime, StartTime + 5 * Minute}
    /\ up = TRUE
    /\ nextRun = ScheduleJobs(now)
    /\ sent = {}
    /\ last = Step("init", NULL, NULL, <<>>, NULL)

\* What the site answers to the refresh of each group.
Fetches == { [g \in GroupIds |-> [lessons |-> l, fails |-> FALSE]] : l \in {<<>>, ListB} }

NextJobs ==
    \/ \E job \in {"groups_once", "groups"}, groups \in {<<>>, Catalog} :
            JobUpdateGroupsList(job, groups)
    \/ \E fetched \in Fetches : JobUpdateTimetables(fetched)
    \/ BeginCheck
    \/ ReturnFromCheck
    \/ Crash
    \/ Outage(10 * Minute)
    \/ last.op = "outage" /\ Startup

SpecJobs == InitJobs /\ [][NextJobs]_vars

\* C15: a firing of the timetable-refresh job refreshes every group of the
\* catalog whose ledger entry says a refresh is due, so that a group
\* refreshed in one firing is refreshed again by the firing 24 hours later.
C15_DueGroupsRefreshedAtFiring ==
    [][ last'.op = "job_update_timetable_for_all_groups" =>
            \A i \in 1..Len(db.groups) :
                is_update_needed(db, "timetable", db.groups[i].group_id, now') =>
                    /\ LedgerRow(db', db.groups[i].group_id) # <<>>
                    /\ LedgerRow(db', db.groups[i].group_id).last_update
                          = StrfTimestamp(now') ]_vars

C18_NoCatchUp ==
    \A m \in sent : InDueWindow(m.category, m.row, m.at)

\* C18 witness: the process was down during the whole due window of a Daily
\* candidate, a cycle has run after the window, and nothing was sent.
C18_Witness ==
    /\ last.op = "check"
    /\ sent = {}
    /\ \E r \in Candidates(db, "daily", last.at) :
          LET notify_time == LessonStart("daily", r, last.at) - r[2] * Minute
          IN  /\ notify_time < last.at
              /\ \E t \in {StartTime, StartTime + 5 * Minute} :
                    /\ t + 5 <= notify_time - DueWindowMinutes * Minute
                    /\ last.at = t + 5 + CheckInterval + 10 * Minute + 5

\* The position of a category in the order of the cycle.
CategoryIndex(category) == CHOOSE i \in 1..Len(Categories) : Categories[i] = category

\* The cycle that ended at category `aborted` (0: it went through) applied
\* the due test to the rows of the category.
Evaluated(category, aborted) == aborted = 0 \/ CategoryIndex(category) < aborted

\* C19: a check cycle leaves the lesson store, the registry and the ledger as
\* they were and consults no record of earlier sends: every candidate the
\* cycle evaluates inside its due window is found due and sent, also when an
\* earlier cycle already sent it.
C19_CycleKeepsNoSentLog ==
    [][ last'.op = "check" =>
            /\ db' = db
            /\ \A c \in CategorySet :
                  \A r \in Candidates(db, c, last'.at) :
                      (Evaluated(c, last'.ret) /\ InDueWindow(c, r, last'.at))
                          => Message(c, r, last'.at) \in sent' ]_vars

\* C19 witness: two cycles in a row found the same Daily candidate due and
\* sent it.
C19_Witness ==
    /\ last.op = "check"
    /\ \E r \in Candidates(db, "daily", last.at) :
          /\ Message("daily", r, last.at) \in sent
          /\ Message("daily", r, last.at - CheckInterval) \in sent

-----------------------------------------------------------------------------
(* The first lesson of a day and the gap rule.                            *)

\* C20: get_gap_notifications_to_send never flags the lesson with the
\* smallest ordinal of a (group, date), also when the day's record begins at
\* an ordinal above 1.
C20_FirstLessonNeverFlagged ==
    last.op = "get_gap_notifications_to_send" =>
        \A l \in SeqToSet(db.lessons) :
            Before(db, l) = {} =>
                ~\E r \in last.ret : r[3] = l.date /\ r[6] = l.number

\* C20 witness: the selector has run on a day that begins at pair 3 and has
\* flagged a later lesson of that day.
C20_Witness ==
    /\ last.op = "get_gap_notifications_to_send"
    /\ last.ret # {}
    /\ \E l \in SeqToSet(db.lessons) : Before(db, l) = {} /\ l.number = 3

-----------------------------------------------------------------------------
(* Specification of faults in a check cycle: two subscribers, a timetable *)
(* whose start time strptime rejects, and a Delivery Sink that may raise  *)
(* for some recipients.                                                   *)

\* A single pair today whose start time is not a time of the day.
ListF ==
    << FetchedLesson(Today, <<1>>, <<24, 0>>, <<10, 0>>, TxtFizika, TxtIvanov) >>

\* User 901 subscribed to group 11 and user 902 to group 12, both with the
\* given Daily lead and General on.
FaultConfig(lessons11, lessons12, dailyMinutes, gapOn) ==
    LET first == NotifyConfig(lessons11, dailyMinutes, TRUE, gapOn, FALSE)
        user == add_user(first, 902)
        result == subscribe_to_group(user.db, user.ret, 12)
        fetched == update_timetable_for_group(result.db, 12, lessons12, FALSE,
                                              StartTime).db
    IN  update_daily_notification_settings(fetched, 902, 12, dailyMinutes)

\* The job queue runs check_upcoming_lessons while send_message raises for
\* the recipients in `failing`: the except clause of the candidate logs the
\* error and the loop goes on.
JobCheckWithFailingSink(failing) ==
    /\ up
    /\ now' = nextRun.check
    /\ LET cycle == check_upcoming_lessons(db, nextRun.check)
       IN  /\ sent' = sent \cup { m \in cycle.sends : m.chat_id \notin failing }
           /\ last' = JobStep("check", failing, cycle.aborted, nextRun.check)
    /\ nextRun' = [nextRun EXCEPT !.check = @ + CheckInterval]
    /\ UNCHANGED <<db, up>>

InitFaults ==
    /\ \E lessons12 \in {ListA, ListF}, dailyMinutes \in {30, 60}, gapOn \in BOOLEAN :
            db = FaultConfig(ListA, lessons12, dailyMinutes, gapOn)
    /\ now \in {StartTime, StartTime + Minute}
    /\ up = TRUE
    /\ nextRun = ScheduleJobs(now)
    /\ sent = {}
    /\ last = Step("init", NULL, NULL, <<>>, NULL)

NextFaults ==
    /\ nextRun.check < StartTime + MaxChecks * CheckInterval
    /\ \E failing \in {{}, {902}} : JobCheckWithFailingSink(failing)

SpecFaults == InitFaults /\ [][NextFaults]_vars

\* The candidates of every category at the instant t, as <<category, row>>.
AllCandidates(d, t) ==
    UNION { { <<c, r>> : r \in Candidates(d, c, t) } : c \in CategorySet }

\* C21: when the Delivery Sink raises for a recipient during a cycle, every
\* candidate of another recipient that is in its due window in that cycle,
\* in the same category or in a later one, is sent in the cycle.
C21_SinkFailureSkipsOnlyRecipient ==
    ( /\ last.op = "check"
      /\ \E x \in AllCandidates(db, now) :
            x[2][1] \in last.input /\ InDueWindow(x[1], x[2], now) )
    => \A x \in AllCandidates(db, now) :
          (x[2][1] \notin last.input /\ InDueWindow(x[1], x[2], now))
              => Message(x[1], x[2], now) \in sent

\* C22: when the start of a candidate cannot be parsed, every other
\* candidate of the cycle is still evaluated: those in their due window are
\* sent.
C22_UnparsableSkipsOnlyCandidate ==
    ( /\ last.op = "check"
      /\ last.input = {}
      /\ \E x \in AllCandidates(db, now) : LessonStart(x[1], x[2], now) = NULL )
    => \A x \in AllCandidates(db, now) :
          InDueWindow(x[1], x[2], now) => Message(x[1], x[2], now) \in sent

\* C23: when the handling of a category raises, the categories after it are
\* still processed in the cycle: their candidates in the due window are sent.
C23_FailureStaysInCategory ==
    (last.op = "check" /\ last.ret # 0) =>
        \A x \in AllCandidates(db, now) :
            (CategoryIndex(x[1]) > last.ret /\ InDueWindow(x[1], x[2], now))
                => Message(x[1], x[2], now) \in sent

-----------------------------------------------------------------------------
(* Specification of a refresh pass: forced refreshes of single groups and *)
(* calls of update_timetable_for_all_groups().                            *)

\* A call of update_timetable_for_all_groups().
UpdateTimetablesPass(fetched) ==
    /\ up
    /\ db' = update_timetable_for_all_groups(db, fetched, now)
    /\ last' = Step("update_timetable_for_all_groups", NULL, NULL, fetched, db)
    /\ UNCHANGED <<now, up, nextRun, sent>>

NextPass ==
    \/ \E g \in GroupIds, lessons \in {<<>>, ListA} : ForceUpdate(g, lessons, FALSE)
    \/ \E fetched \in [GroupIds -> {[lessons |-> l, fails |-> FALSE] :
                                      l \in {<<>>, ListB, ListC}}] :
            UpdateTimetablesPass(fetched)

SpecPass == InitRegistry /\ [][NextPass]_vars

\* C24: a pass of update_timetable_for_all_groups refreshes every group that
\* was due, whatever happened to the groups before it: a group whose fetch
\* returned lessons is completed with these lessons stored, a group whose
\* fetch failed is rescheduled an hour later with status failed and is not
\* left in_progress; a group that was not due is left alone.
C24_PassVisitsEveryGroup ==
    last.op = "update_timetable_for_all_groups" =>
        \A g \in GroupIds :
            IF is_update_needed(last.ret, "timetable", g, last.at)
            THEN IF last.input[g].lessons # <<>>
                 THEN /\ LedgerEntryIs(db, g, "completed", last.at, 24 * Hour)
                      /\ LessonsOf(db, g) = RowsOf(g, last.input[g].lessons)
                 ELSE /\ LedgerEntryIs(db, g, "failed", last.at, Hour)
                      /\ LessonsOf(db, g) = LessonsOf(last.ret, g)
            ELSE /\ LedgerRow(db, g) = LedgerRow(last.ret, g)
                 /\ LessonsOf(db, g) = LessonsOf(last.ret, g)

\* C24 witness: in one pass the fetch of the first group failed and the
\* second group, due as well, was refreshed.
C24_Witness ==
    /\ last.op = "update_timetable_for_all_groups"
    /\ is_update_needed(last.ret, "timetable", 11, last.at)
    /\ is_update_needed(last.ret, "timetable", 12, last.at)
    /\ last.input[11].lessons = <<>>
    /\ last.input[12].lessons # <<>>
    /\ LedgerRow(db, 11).status = "failed"
    /\ LedgerRow(db, 12).status = "completed"

-----------------------------------------------------------------------------
(* The group catalog.                                                     *)

\* C25: after update_groups_list has fetched a catalog, the stored group of
\* every catalog entry carries the entry's display name: new groups are
\* inserted and the names of stored groups are updated.
C25_CatalogUpserted ==
    (last.op = "update_groups_list" /\ last.input # <<>>) =>
        \A i \in 1..Len(last.input) :
            \E k \in 1..Len(db.groups) :
                /\ db.groups[k].group_id = last.input[i].value
                /\ db.groups[k].name = last.input[i].name

-----------------------------------------------------------------------------
(* Subscriptions and their preferences under every settings handler *)

\* One user who subscribes, unsubscribes and uses every settings handler,
\* and a second user who subscribes to and unsubscribes from the same group.
PrefsUser == <<901, 11>>
PrefsOther == <<902, 11>>

NextPrefs ==
    \/ \E p \in {PrefsUser, PrefsOther} :
            Subscribe(p[1], p[2], ListD, FALSE) /\ RegistryBounded
    \/ \E p \in {PrefsUser, PrefsOther} : Unsubscribe(p[1], p[2])
    \/ AddSubject(PrefsUser[1], PrefsUser[2], TxtMath) /\ RegistryBounded
    \/ AddTeacher(PrefsUser[1], PrefsUser[2], TxtPETROV) /\ RegistryBounded
    \/ NotifyOff(PrefsUser[1], PrefsUser[2])
    \/ Notify(PrefsUser[1], PrefsUser[2], 15)
    \/ DailyNotifyOff(PrefsUser[1], PrefsUser[2])
    \/ DailyNotify(PrefsUser[1], PrefsUser[2], 90)
    \/ GapNotifyOff(PrefsUser[1], PrefsUser[2])
    \/ GapNotify(PrefsUser[1], PrefsUser[2], 15)

SpecPrefs == InitRegistry /\ [][NextPrefs]_vars

\* The rows of a table with a subscription_id column that belong to the
\* given subscriptions.
RowsAmong(table, ids) == { r \in table : r.subscription_id \in ids }

\* C26: there is never more than one subscription per (user, group), and
\* subscribing a user to a group they are subscribed to returns False and
\* changes nothing in the database: flags, lead minutes and pattern rows stay.
C26_ResubscribeChangesNothing ==
    [][ /\ \A s1 \in db'.subscriptions : \A s2 \in db'.subscriptions :
              (s1.user_id = s2.user_id /\ s1.group_id = s2.group_id) => s1 = s2
        /\ (/\ last'.op = "subscribe"
            /\ SubscriptionIds(db, last'.user, last'.group) # {})
              => (last'.ret = FALSE /\ db' = db) ]_vars

\* A repeated subscription of a subscriber whose master switch is off, whose
\* General lead is 15 and Daily lead 90 minutes, and who has a subject
\* pattern.
C26_Witness ==
    /\ last.op = "subscribe"
    /\ last.ret = FALSE
    /\ \E s \in db.subscriptions :
          /\ s.id \in SubscriptionIds(db, last.user, last.group)
          /\ s.notifications_enabled = 0
          /\ \E r \in RowsAmong(db.notification_settings, {s.id}) :
                r.notify_before_minutes = 15
          /\ \E r \in RowsAmong(db.daily_notifications, {s.id}) :
                r.notify_before_minutes = 90
          /\ RowsAmong(db.subject_notifications, {s.id}) # {}

\* C27: after any sequence of subscribe, unsubscribe, toggle, set-lead and
\* add-pattern operations a subscription has at most one General, at most
\* one Daily and at most one Gap preference row.
C27_OneRowPerCategory ==
    \A s \in db.subscriptions :
        /\ Cardinality(RowsAmong(db.notification_settings, {s.id})) <= 1
        /\ Cardinality(RowsAmong(db.daily_notifications, {s.id})) <= 1
        /\ Cardinality(RowsAmong(db.gap_notifications, {s.id})) <= 1

\* The Gap lead was just set for a subscription that was made second, has a
\* Daily lead of 90 minutes, a General lead of 15 minutes and a subject
\* pattern, and has exactly one row in each of the three tables.
C27_Witness ==
    /\ last.op = "gap_notify"
    /\ \E s \in db.subscriptions :
          /\ s.id \in SubscriptionIds(db, last.user, last.group)
          /\ s.id = 2
          /\ RowsAmong(db.notification_settings, {s.id}) =
                {[subscription_id |-> s.id, notify_before_minutes |-> 15]}
          /\ RowsAmong(db.daily_notifications, {s.id}) =
                {[subscription_id |-> s.id, enabled |-> 1,
                  notify_before_minutes |-> 90]}
          /\ RowsAmong(db.gap_notifications, {s.id}) =
                {[subscription_id |-> s.id, enabled |-> 1,
                  notify_before_minutes |-> 15]}
          /\ RowsAmong(db.subject_notifications, {s.id}) # {}

\* The handlers that toggle a category or set its lead minutes.
GeneralOps == {"notify", "notify_off"}
DailyOps == {"daily_notify", "daily_notify_off"}
GapOps == {"gap_notify", "gap_notify_off"}

\* The categories the General master switch does not govern.
OtherCategories == {"daily", "gap", "subject", "teacher"}

\* C28: toggling a category or setting its lead minutes for a (user, group)
\* leaves the flags and lead minutes of the other categories of that
\* subscription and every preference of every other subscription unchanged;
\* turning the General master switch off leaves the Daily, Gap, Subject and
\* Teacher candidates as they were.
C28_SettingsTouchOneCategory ==
    [][ (last'.op \in GeneralOps \cup DailyOps \cup GapOps) =>
          LET mine == SubscriptionIds(db, last'.user, last'.group)
              others == { s.id : s \in db.subscriptions } \ mine
          IN  /\ last'.op \notin GeneralOps =>
                    /\ db'.subscriptions = db.subscriptions
                    /\ db'.notification_settings = db.notification_settings
              /\ last'.op \notin DailyOps =>
                    db'.daily_notifications = db.daily_notifications
              /\ last'.op \notin GapOps =>
                    db'.gap_notifications = db.gap_notifications
              /\ db'.subject_notifications = db.subject_notifications
              /\ db'.teacher_notifications = db.teacher_notifications
              /\ { s \in db'.subscriptions : s.id \in others } =
                    { s \in db.subscriptions : s.id \in others }
              /\ RowsAmong(db'.notification_settings, others) =
                    RowsAmong(db.notification_settings, others)
              /\ RowsAmong(db'.daily_notifications, others) =
                    RowsAmong(db.daily_notifications, others)
              /\ RowsAmong(db'.gap_notifications, others) =
                    RowsAmong(db.gap_notifications, others)
              /\ last'.op = "notify_off" =>
                    \A c \in OtherCategories :
                        Candidates(db', c, now) = Candidates(db, c, now) ]_vars

\* The master switch was just turned off for a subscriber who still has a
\* Daily, a Gap, a Subject and a Teacher candidate and no General one, while
\* another subscriber of the group keeps the General candidates.
C28_Witness ==
    /\ last.op = "notify_off"
    /\ \A c \in OtherCategories :
          \E r \in Candidates(db, c, now) : r[1] = last.user
    /\ ~ \E r \in Candidates(db, "general", now) : r[1] = last.user
    /\ \E r \in Candidates(db, "general", now) : r[1] = PrefsOther[1]

-----------------------------------------------------------------------------
(* The refresh jobs as the job queue calls them *)

\* C29: whenever the job queue fires the group-list refresh job or the
\* timetable refresh job, calling the registered callback with its context
\* argument, the body of the refresh routine begins to run.
C29_FiringRunsTheBody ==
    (last.op \in {"job_update_groups_list", "job_update_timetable_for_all_groups"})
        => last.ret = "begun"

-----------------------------------------------------------------------------
(* Polling: cycles every CheckInterval against windows of DueWindowMinutes *)

\* The due window of the candidate began after the process had started and
\* has ended before the instant t.
WindowWithinUptime(category, r, t) ==
    LET S == LessonStart(category, r, t)
    IN  /\ S # NULL
        /\ StartTime + Minute <= S - r[2] * Minute - DueWindowMinutes * Minute
        /\ S - r[2] * Minute < t

\* C30: with a check cycle every 120 seconds, every candidate whose due
\* window lies within the uptime of the process was found due by a cycle:
\* once the window has ended, a cycle that ran inside it has sent the
\* candidate.
C30_NoWindowMissed ==
    last.op = "check" =>
        \A x \in AllCandidates(db, now) :
            WindowWithinUptime(x[1], x[2], now) =>
                \E m \in Deliveries(x[1], x[2]) : InDueWindow(x[1], x[2], m.at)

-----------------------------------------------------------------------------
(* The ledger entry of a refresh against what the refresh stored *)

\* C31: whenever a refresh leaves the ledger entry of a group completed with
\* next-due 24 hours out, the stored lessons of the group are the list that
\* refresh fetched: a refresh whose save failed is not recorded as completed.
C31_CompletedMeansStored ==
    ( /\ last.op = "update_timetable_for_group"
      /\ LedgerEntryIs(db, last.group, "completed", last.at, 24 * Hour) )
        => LessonsOf(db, last.group) = RowsOf(last.group, last.input.lessons)

-----------------------------------------------------------------------------
(* Specification of the save transaction: save_timetable followed statement *)
(* by statement on the bot's connection, with the readers that share the    *)
(* connection on the event loop and the API process reading the same file   *)
(* through a connection of its own.                                         *)

\* save_timetable with an await after its DELETE statement.
SaveTimetableAwaitingAfterDelete == {"DELETE"}

\* The statements of save_timetable after which the coroutine awaits: none,
\* save_timetable is a plain function and update_timetable_for_group has no
\* await around its call.
SaveTimetableAwaits == {}

\* An except branch that logs and returns without rollback.
OnSaveErrorWithoutRollback(working, committed) == working

\* The except branch of save_timetable: conn.rollback() brings the lessons
\* back to what they were at the last commit.
OnSaveError(working, committed) == committed

\* The transaction the connection has open: running holds at most one.
Txn == CHOOSE x \in nextRun.running : TRUE

\* save_timetable begins: DELETE FROM lessons WHERE group_id = ?.  The
\* transaction remembers the lessons as they were committed.
SaveDelete(group_id, lessons) ==
    /\ up
    /\ nextRun.running = {}
    /\ db' = [db EXCEPT !.lessons = SelectSeq(@, LAMBDA l : l.group_id # group_id)]
    /\ nextRun' = [nextRun EXCEPT !.running =
            {[callback |-> "save_timetable", group_id |-> group_id,
              lessons |-> lessons, done |-> 0, position |-> "DELETE",
              committed |-> db.lessons]}]
    /\ last' = Step("DELETE", NULL, group_id, lessons, NULL)
    /\ UNCHANGED <<now, up, sent>>

\* The next INSERT of the loop.
SaveInsert ==
    /\ up
    /\ nextRun.running # {}
    /\ Txn.done < Len(Txn.lessons)
    /\ db' = [db EXCEPT !.lessons =
                Append(@, LessonRow(Txn.group_id, Txn.lessons[Txn.done + 1]))]
    /\ nextRun' = [nextRun EXCEPT !.running =
            {[Txn EXCEPT !.done = @ + 1, !.position = "INSERT"]}]
    /\ last' = Step("INSERT", NULL, Txn.group_id, Txn.done + 1, NULL)
    /\ UNCHANGED <<now, up, sent>>

\* conn.commit() after the last INSERT; save_timetable returns True.
SaveCommit ==
    /\ up
    /\ nextRun.running # {}
    /\ Txn.done = Len(Txn.lessons)
    /\ db' = db
    /\ nextRun' = [nextRun EXCEPT !.running = {}]
    /\ last' = Step("save_timetable", NULL, Txn.group_id,
                    [lessons |-> Txn.lessons, done |-> Txn.done,
                     committed |-> Txn.committed], TRUE)
    /\ UNCHANGED <<now, up, sent>>

\* The next INSERT raises: the except branch runs and save_timetable
\* returns False.
SaveInsertRaises ==
    /\ up
    /\ nextRun.running # {}
    /\ Txn.done < Len(Txn.lessons)
    /\ db' = [db EXCEPT !.lessons = OnSaveError(@, Txn.committed)]
    /\ nextRun' = [nextRun EXCEPT !.running = {}]
    /\ last' = Step("save_timetable", NULL, Txn.group_id,
                    [lessons |-> Txn.lessons, done |-> Txn.done,
                     committed |-> Txn.committed], FALSE)
    /\ UNCHANGED <<now, up, sent>>

\* A reader on the bot's event loop and connection, the check cycle or a
\* user query: it runs only while no other coroutine is between two awaits,
\* and reads what the connection holds.
BotReads(reader, group_id) ==
    /\ up
    /\ \A x \in nextRun.running : x.position \in SaveTimetableAwaits
    /\ last' = Step("read", reader, group_id,
                    nextRun.running # {}, LessonsOf(db, group_id))
    /\ UNCHANGED <<db, now, up, nextRun, sent>>

\* A reader in the API process, at any moment: its connection sees what is
\* committed.
ApiReads(group_id) ==
    /\ LET seen == IF nextRun.running = {} THEN db.lessons ELSE Txn.committed
       IN  last' = Step("read", "api", group_id, nextRun.running # {},
                        SelectSeq(seen, LAMBDA l : l.group_id = group_id))
    /\ UNCHANGED <<db, now, up, nextRun, sent>>

NextTxn ==
    \/ \E g \in GroupIds, lessons \in {<<>>, ListA, ListC} : SaveDelete(g, lessons)
    \/ SaveInsert
    \/ SaveCommit
    \/ SaveInsertRaises
    \/ \E reader \in {"check_upcoming_lessons", "get_timetable_for_group"},
          g \in GroupIds : BotReads(reader, g)
    \/ \E g \in GroupIds : ApiReads(g)

SpecTxn == InitRegistry /\ [][NextTxn]_vars

\* C32: when an INSERT of save_timetable fails, the delete-then-insert is
\* rolled back: the stored lessons are those stored before the call, none of
\* the new rows stays, and the call returns False.
C32_FailedSaveRollsBack ==
    [][ (nextRun.running # {} /\ nextRun'.running = {}
            /\ Txn.done < Len(Txn.lessons))
          => /\ last'.op = "save_timetable" /\ last'.ret = FALSE
             /\ db'.lessons = Txn.committed ]_vars

\* The second INSERT of a save failed for a group that had stored lessons
\* other than the new ones: the stored lessons are the old ones.
C32_Witness ==
    /\ last.op = "save_timetable" /\ last.ret = FALSE
    /\ last.input.done = 1
    /\ LessonsOf(db, last.group) # <<>>
    /\ LessonsOf(db, last.group) # RowsOf(last.group, last.input.lessons)
    /\ db.lessons = last.input.committed

\* C37: no check cycle and no user query observes the lessons of a group
\* partially replaced: what a reader gets while a save is between its DELETE
\* and its commit is the lesson set of the group as last committed.
C37_NoPartialStateObserved ==
    (last.op = "read" /\ last.input) =>
        \A x \in nextRun.running :
            last.ret = SelectSeq(x.committed, LAMBDA l : l.group_id = last.group)

\* A query came while a save had deleted the stored lessons of the group and
\* inserted the first of two new ones: the query got the old lessons.
C37_Witness ==
    /\ last.op = "read" /\ last.input
    /\ last.ret # <<>>
    /\ \E x \in nextRun.running :
          /\ x.group_id = last.group
          /\ x.done = 1
          /\ LessonsOf(db, last.group) # last.ret

-----------------------------------------------------------------------------
(* The rows of the update ledger *)

\* C33: after any sequence of refresh operations the ledger holds at most
\* one entry per (entity_type, entity_id), the entry of the group list with
\* its absent entity id included: repeated refreshes of the group list add
\* no further entry.
C33_OneLedgerEntryPerEntity ==
    \A i \in 1..Len(db.update_info) : \A j \in 1..Len(db.update_info) :
        ( /\ db.update_info[i].entity_type = db.update_info[j].entity_type
          /\ db.update_info[i].entity_id = db.update_info[j].entity_id )
            => i = j

-----------------------------------------------------------------------------
(* Specification of the look-ahead: the site holds lessons of a group at   *)
(* several distances from today, and each refresh asks for a span of days. *)

\* The value of the parameter `days` of update_timetable_for_group when the
\* caller gives none.
DefaultDays == 30

\* The days, counted from today, on which the site has a lesson of a group.
SiteDays == <<0, 20, 60>>

\* parse_timetable(group_id, start_date, end_date) with start_date the day of
\* t and end_date `days` later: the lessons of the site dated in the span.
parse_timetable(t, days) ==
    LET inSpan == SelectSeq(SiteDays, LAMBDA k : k <= days)
    IN  [i \in 1..Len(inSpan) |->
            FetchedLesson(StrfDate(t + inSpan[i] * DayLen), <<1>>, <<8, 30>>,
                          <<10, 0>>, TxtMathematics, TxtPetrov)]

\* handle_callback 'set_period_<days>_<group>'.
SetPeriod(group_id, days) ==
    /\ up
    /\ db' = set_update_period_for_group(db, group_id, days)
    /\ last' = Step("set_period", NULL, group_id, days, NULL)
    /\ UNCHANGED <<now, up, nextRun, sent>>

\* The look-ahead configured for a group.
LookAhead(d, group_id) == get_update_period_for_group(d, group_id).ret

NextSpan ==
    \/ \E g \in GroupIds, days \in {14, 30, 90} : SetPeriod(g, days)
    \/ \E p \in {PrefsUser, PrefsOther} :
            Subscribe(p[1], p[2], parse_timetable(now, DefaultDays), FALSE)
                /\ RegistryBounded
    \/ Unsubscribe(PrefsUser[1], PrefsUser[2])
    \/ \E g \in GroupIds :
            ForceUpdate(g, parse_timetable(now, LookAhead(db, g)), FALSE)
    \/ UpdateTimetablesPass(
            [g \in GroupIds |->
                [lessons |-> parse_timetable(now, LookAhead(db, g)),
                 fails |-> FALSE]])

SpecSpan == InitRegistry /\ [][NextSpan]_vars

\* C34: every refresh of a group's timetable, by the scheduled pass, forced
\* by a user or triggered by a new subscription, fetches the span from today
\* to today plus the look-ahead configured for the group: after it the
\* stored lessons of the group are the site's lessons of that span.
C34_RefreshCoversLookAhead ==
    LET Covered(g) ==
            LessonsOf(db, g) = RowsOf(g, parse_timetable(now, LookAhead(db, g)))
    IN  /\ (last.op = "subscribe" /\ last.ret = TRUE) => Covered(last.group)
        /\ last.op = "update_timetable_for_group" => Covered(last.group)
        /\ last.op = "update_timetable_for_all_groups" =>
              \A g \in GroupIds :
                  is_update_needed(last.ret, "timetable", g, now) => Covered(g)

-----------------------------------------------------------------------------
(* Specification of the period query: a group with stored lessons around   *)
(* the turn of the year, and get_timetable_for_period called on it.        *)

\* The positions of a set of stored lessons put in the order of
\* ORDER BY date, time_start: the texts compared as texts, rowid last.
RECURSIVE OrderByDateTime(_, _)
OrderByDateTime(d, positions) ==
    IF positions = {} THEN <<>>
    ELSE LET Key(i) == d.lessons[i].date \o d.lessons[i].time_start
             first == CHOOSE i \in positions : \A j \in positions :
                        \/ TupleLess(Key(i), Key(j))
                        \/ (Key(i) = Key(j) /\ i <= j)
         IN  <<d.lessons[first]>> \o OrderByDateTime(d, positions \ {first})

\* get_timetable_for_period(group_id, start_date, end_date):
\* WHERE group_id = ? AND date >= ? AND date <= ? ORDER BY date, time_start,
\* date being the text DD.MM.YYYY.
get_timetable_for_period(d, group_id, start_date, end_date) ==
    OrderByDateTime(d, { i \in 1..Len(d.lessons) :
                            /\ d.lessons[i].group_id = group_id
                            /\ TupleLeq(start_date, d.lessons[i].date)
                            /\ TupleLeq(d.lessons[i].date, end_date) })

\* Lessons for a sequence of <<days from today, hour>>.
LessonsAt(slots) ==
    [i \in 1..Len(slots) |->
        FetchedLesson(StrfDate(StartTime + slots[i][1] * DayLen), <<i>>,
                      <<slots[i][2], 30>>, <<slots[i][2] + 1, 30>>,
                      TxtMathematics, TxtPetrov)]

\* What the group 11 has stored: today is 31.12.2025.
StoredSlots ==
    { << <<0, 8>>, <<0, 10>> >>,
      << <<1, 10>>, <<0, 8>>, <<1, 8>> >>,
      << <<0, 8>>, <<1, 8>>, <<2, 8>> >>,
      << <<31, 8>>, <<2, 8>>, <<0, 8>> >>,
      << <<1, 8>>, <<2, 10>>, <<2, 8>> >>,
      << <<32, 8>>, <<1, 8>> >> }

InitPeriod ==
    /\ \E slots \in StoredSlots :
          db = save_timetable(
                  save_timetable(update_groups_list(EmptyDb, Catalog, StartTime),
                                 12, LessonsAt(<< <<0, 12>>, <<1, 12>> >>), FALSE).db,
                  11, LessonsAt(slots), FALSE).db
    /\ now = StartTime
    /\ up = TRUE
    /\ nextRun = ScheduleJobs(StartTime)
    /\ sent = {}
    /\ last = Step("init", NULL, NULL, <<>>, NULL)

\* api.py, GET /timetable/{group_id}?date=..&days=.. with days > 1.
ApiGetTimetable(group_id, date, days) ==
    /\ days > 1
    /\ LET end_date == StrfDate(StrpDateTime(date, <<0, 0>>) + (days - 1) * DayLen)
       IN  last' = Step("get_timetable_for_period", NULL, group_id,
                        [start |-> date, end |-> end_date],
                        get_timetable_for_period(db, group_id, date, end_date))
    /\ UNCHANGED <<db, now, up, nextRun, sent>>

NextPeriod ==
    \E g \in GroupIds, from \in 0..2, days \in {2, 3, 32} :
        ApiGetTimetable(g, StrfDate(StartTime + from * DayLen), days)

SpecPeriod == InitPeriod /\ [][NextPeriod]_vars

\* The instant a stored lesson begins.
LessonInstant(l) == StrpDateTime(l.date, l.time_start)

\* C35: get_timetable_for_period(g, start, end) returns exactly the stored
\* lessons of g whose calendar date lies chronologically within
\* [start, end], by date and then start time, also across the end of a
\* month or of a year.
C35_PeriodIsChronological ==
    last.op = "get_timetable_for_period" =>
        LET from == StrpDateTime(last.input.start, <<0, 0>>)
            to == StrpDateTime(last.input.end, <<0, 0>>) + DayLen
            within == { i \in 1..Len(db.lessons) :
                            /\ db.lessons[i].group_id = last.group
                            /\ from <= LessonInstant(db.lessons[i])
                            /\ LessonInstant(db.lessons[i]) < to }
        IN  /\ Len(last.ret) = Cardinality(within)
            /\ \A i \in within : \E k \in 1..Len(last.ret) : last.ret[k] = db.lessons[i]
            /\ \A k \in 1..Len(last.ret) - 1 :
                  LessonInstant(last.ret[k]) <= LessonInstant(last.ret[k + 1])

-----------------------------------------------------------------------------
(* Patterns with the characters of LIKE *)

\* Whether a pattern contains '%' or '_'.
HasWildcard(pattern) ==
    \E k \in 1..Len(pattern) : pattern[k] \in {Percent, Underscore}

\* C36: a Subject or Teacher pattern is matched as a literal substring: a
\* pattern that contains '%' or '_' selects only lessons whose subject or
\* teacher contains those characters themselves.
C36_PatternIsLiteral ==
    /\ last.op = "get_subject_notifications_to_send" =>
          \A r \in last.ret : HasWildcard(r[5]) => ContainsIgnoringCase(r[10], r[5])
    /\ last.op = "get_teacher_notifications_to_send" =>
          \A r \in last.ret : HasWildcard(r[5]) => ContainsIgnoringCase(r[13], r[5])

-----------------------------------------------------------------------------
(* Specification of the throttle: update_timetable_for_all_groups followed *)
(* with the clock, the fetches of a pass recorded with their instants.     *)

\* Bound: the hours of the clock that are followed.
MaxPassHours == 2

\* asyncio.sleep(1) after the refresh of a group.
PassDelay == 1

\* The loop with the sleep placed in the branch of a successful refresh.
RECURSIVE TimedPassSleepingOnSuccess(_, _, _, _, _)
TimedPassSleepingOnSuccess(d, i, fetched, t, log) ==
    IF i > Len(d.groups) THEN [db |-> d, t |-> t, log |-> log]
    ELSE LET group_id == d.groups[i].group_id
         IN  IF ~is_update_needed(d, "timetable", group_id, t)
             THEN TimedPassSleepingOnSuccess(d, i + 1, fetched, t, log)
             ELSE LET update_days == get_update_period_for_group(d, group_id)
                      r == update_timetable_for_group(update_days.db, group_id,
                              fetched[group_id].lessons, fetched[group_id].fails, t)
                  IN  TimedPassSleepingOnSuccess(r.db, i + 1, fetched,
                          IF r.ret THEN t + PassDelay ELSE t,
                          Append(log, [group_id |-> group_id, at |-> t]))

\* The loop of update_timetable_for_all_groups from the group at position i
\* on, at the instant t: a group that is not due is passed over; a due group
\* is refreshed, which sends the request to the site at t, and the loop
\* sleeps PassDelay.  `log` collects the requests sent.
RECURSIVE TimedPass(_, _, _, _, _)
TimedPass(d, i, fetched, t, log) ==
    IF i > Len(d.groups) THEN [db |-> d, t |-> t, log |-> log]
    ELSE LET group_id == d.groups[i].group_id
         IN  IF ~is_update_needed(d, "timetable", group_id, t)
             THEN TimedPass(d, i + 1, fetched, t, log)
             ELSE LET update_days == get_update_period_for_group(d, group_id)
                      r == update_timetable_for_group(update_days.db, group_id,
                              fetched[group_id].lessons, fetched[group_id].fails, t)
                  IN  TimedPass(r.db, i + 1, fetched, t + PassDelay,
                                Append(log, [group_id |-> group_id, at |-> t]))

\* A call of update_timetable_for_all_groups(), from its first statement to
\* its return.
UpdateTimetablesTimed(fetched) ==
    /\ up
    /\ LET pass == TimedPass(db, 1, fetched, now, <<>>)
       IN  /\ db' = pass.db
           /\ now' = pass.t
           /\ last' = Step("timed_pass", NULL, NULL, fetched,
                           [before |-> db, log |-> pass.log])
    /\ UNCHANGED <<up, nextRun, sent>>

\* Time passes with the bot idle.
Idle(seconds) ==
    /\ up
    /\ now + seconds <= StartTime + MaxPassHours * Hour
    /\ now' = now + seconds
    /\ last' = Step("idle", NULL, NULL, seconds, NULL)
    /\ UNCHANGED <<db, up, nextRun, sent>>

NextThrottle ==
    \/ ForceUpdate(11, ListA, FALSE)
    \/ \E fetched \in [GroupIds -> {[lessons |-> l, fails |-> FALSE] :
                                      l \in {<<>>, ListB}}] :
            UpdateTimetablesTimed(fetched)
    \/ Idle(Hour)

SpecThrottle == InitRegistry /\ [][NextThrottle]_vars

\* C38: within one pass any two consecutive requests to the site are
\* separated by the delay that follows each refresh, the pass ends no
\* earlier than the delay after its last request, and a request is sent for
\* no group that was not due.
C38_PassIsThrottled ==
    last.op = "timed_pass" =>
        LET log == last.ret.log
        IN  /\ \A k \in 1..Len(log) - 1 : log[k + 1].at - log[k].at >= PassDelay
            /\ log # <<>> => now - log[Len(log)].at >= PassDelay
            /\ \A k \in 1..Len(log) :
                  is_update_needed(last.ret.before, "timetable",
                                   log[k].group_id, log[k].at)
            /\ \A g \in GroupIds :
                  ~is_update_needed(last.ret.before, "timetable", g, now) =>
                      \A k \in 1..Len(log) : log[k].group_id # g

\* A pass in which both groups were due again after a failed refresh: the
\* fetch of the first returned nothing, and the request for the second
\* followed PassDelay later.
C38_Witness ==
    /\ last.op = "timed_pass"
    /\ Len(last.ret.log) = 2
    /\ last.input[last.ret.log[1].group_id].lessons = <<>>
    /\ last.ret.log[2].at = last.ret.log[1].at + PassDelay
    /\ \A g \in GroupIds : LedgerEntryIs(last.ret.before, g, "failed",
                                          StrpTimestamp(LedgerRow(last.ret.before, g).last_update),
                                          Hour)
====
